---- MODULE Spec2Model ----
(***************************************************************************)
(* Model of the Telegram quiz bot of src/app.py: the per-user session      *)
(* store (DataStore in the configuration without a redis_client, i.e. the  *)
(* in-process map that the file backend mirrors), the update dispatcher    *)
(* (process_update, handle_message, handle_callback_query), the quiz        *)
(* submission handler, the webhook endpoint and the expiry sweep.          *)
(*                                                                         *)
(* Spec  handles one request per step (one request thread at a time).      *)
(* SpecC runs two request threads whose handlers interleave at the         *)
(*       granularity of the DataStore lock (one get or one set per step).  *)
(* SpecP handles one request per step and records the button presses.    *)
(* SpecQ applies the quiz submission handler once to each array of a       *)
(*       larger family of question arrays, after one button press.         *)
(* SpecD applies the operations of DataStore, with and without a           *)
(*       redis_client, whose calls to the backend may fail.                *)
(* SpecH applies one outbound operation (send_message, send_poll,          *)
(*       edit_message_text, answer_callback_query) to one input, with      *)
(*       every outcome of the HTTP request.                                *)
(* SpecW runs the keep-alive and the cleanup worker next to requests,      *)
(*       clock advances and shutdown; its fairness makes each worker run.  *)
(* SpecU lets new users send /start one after the other.                   *)
(* SpecK runs the loop of the external keep-alive service                  *)
(*       (src/external_keepalive.py) over every outcome of its pings.      *)
(* SpecM runs the loop of the monitor (src/monitor.py) over every outcome  *)
(*       of its health checks, with its table of downtime events.          *)
(***************************************************************************)
EXTENDS Integers, Sequences, FiniteSets, TLC

\* ---------------------------------------------------------------- bounds
NumUsers == 1
MaxTicks == 2
MaxQuestions == 1
StartTime == 1
MaxBatch == 4
MaxExtra == 1
NumBots == 2
MaxCycles == 7

Users == 1..NumUsers
Threads == {1, 2}

\* ------------------------------------------------------ program constants
max_users == 500
user_ttl == 3600
max_questions_per_quiz == 25

VARIABLES
    memory_store,   \* DataStore.memory_store restricted to the keys user:<id>
    now,            \* time.time()
    nticks,         \* number of clock advances so far (bounds the clock)
    last,           \* the update handled by the most recent step (NoUpdate if none)
    out,            \* the Telegram API calls issued by the most recent step
    pc,             \* SpecC: position of each request thread in its handler
    tupd,           \* SpecC: the update each request thread is handling
    tsess,          \* SpecC: the local UserSession object of each thread
    base,           \* SpecC: the store when the two threads were started
    tlog,           \* SpecC: what each thread has done so far, in order
    pressed,        \* SpecP: the data of each user's most recent handled callback
    response,       \* the HTTP status the webhook returned in the most recent step
    stats_delta,    \* what the most recent step added to the BotStats counters
    backend,        \* DataStore: "redis", "file" or "memory"
    redis_store,    \* SpecD: the keys held by the Redis server
    ret,            \* SpecD: the most recent DataStore call and its outcome
    tg,             \* SpecH: the most recent outbound operation and its outcome
    shutdown_event, \* SpecW: QuizBot.shutdown_event
    wpc,            \* SpecW: position of each background worker in its loop
    lock,           \* SpecW: the holder of DataStore._lock
    late,           \* SpecW: whether the worker's latest wake-up found the flag set
    ka,             \* SpecK: the external keep-alive service (its stats and its loop)
    mon             \* SpecM: the monitor (its stats, its database and its loop)

threadVars == <<pc, tupd, tsess, base, tlog>>
storeVars == <<backend, redis_store, ret>>
workerVars == <<shutdown_event, wpc, lock, late>>
extVars == <<ka, mon>>
auxVars == <<tg, shutdown_event, wpc, lock, late, ka, mon>>

vars == <<memory_store, now, nticks, last, out, pc, tupd, tsess, base, tlog,
          pressed, response, stats_delta, backend, redis_store, ret,
          tg, shutdown_event, wpc, lock, late, ka, mon>>

\* ------------------------------------------------------------ UserSession
\* user_id is the key; error_count and created_at are never read or changed
\* after construction and are left out.
UserSession(t) ==
    [state |-> "idle", anonymous |-> TRUE, quiz_count |-> 0, last_activity |-> t]

\* -------------------------------------------------------------- DataStore
DataStore_has(m, u) == u \in DOMAIN m

DataStore_set(m, u, value) ==
    [k \in (DOMAIN m) \cup {u} |-> IF k = u THEN value ELSE m[k]]

\* get_user_session, first half: data_store.get and the construction of the
\* session object (a default one when no data is stored)
load_session(m, u, t) ==
    IF DataStore_has(m, u) THEN m[u] ELSE UserSession(t)

\* get_user_session, second half: the object with last_activity refreshed,
\* which is what gets written back and returned
touch_session(session, t) == [session EXCEPT !.last_activity = t]

\* get_user_session without the data_store.set of line 535
get_user_session_unsaved(m, u, t) ==
    [session |-> touch_session(load_session(m, u, t), t), store |-> m]

get_user_session(m, u, t) ==
    LET session == touch_session(load_session(m, u, t), t)
    IN  [session |-> session, store |-> DataStore_set(m, u, session)]

\* cleanup_expired that also removes an entry of exactly ttl seconds
cleanup_expired_inclusive(m, t, ttl) ==
    LET expired_keys == {k \in DOMAIN m : t - m[k].last_activity >= ttl}
    IN  [k \in (DOMAIN m) \ expired_keys |-> m[k]]

cleanup_expired(m, t, ttl) ==
    LET expired_keys == {k \in DOMAIN m : t - m[k].last_activity > ttl}
    IN  [k \in (DOMAIN m) \ expired_keys |-> m[k]]

\* ----------------------------------------------- DataStore with a backend
\* The three outcomes of _init_persistent_storage: a redis_client, a
\* storage_file, or neither.
Backends == {"redis", "file", "memory"}

\* json.dumps of a session dictionary: the text Redis holds, here the values
\* of the keys in the order of the dataclass fields
json_dumps(value) ==
    <<value.state, value.anonymous, value.quiz_count, value.last_activity>>

\* json.loads of such a text
json_loads(text) ==
    [state |-> text[1], anonymous |-> text[2], quiz_count |-> text[3],
     last_activity |-> text[4]]

\* DataStore.set whose except clause re-raises instead of falling back
DataStore_set_backend_reraise(b, mem, red, key, value, fails) ==
    IF b = "redis"
    THEN IF fails
         THEN [memory |-> mem, redis |-> red, raised |-> TRUE]
         ELSE [memory |-> mem, redis |-> DataStore_set(red, key, json_dumps(value)),
               raised |-> FALSE]
    ELSE [memory |-> DataStore_set(mem, key, value), redis |-> red, raised |-> FALSE]

\* DataStore.set: fails says that the call to the backend raises (setex or
\* json.dumps with a redis_client, the write of the file otherwise).  With a
\* storage_file the map is written first and _save_to_file swallows its own
\* exception.
DataStore_set_backend(b, mem, red, key, value, fails) ==
    IF b = "redis"
    THEN IF fails
         THEN [memory |-> DataStore_set(mem, key, value), redis |-> red, raised |-> FALSE]
         ELSE [memory |-> mem, redis |-> DataStore_set(red, key, json_dumps(value)),
               raised |-> FALSE]
    ELSE [memory |-> DataStore_set(mem, key, value), redis |-> red, raised |-> FALSE]

\* DataStore.get: found is FALSE when the default (None) is returned
DataStore_get_backend(b, mem, red, key, fails) ==
    LET from_redis == b = "redis" /\ ~fails
        src == IF from_redis THEN red ELSE mem
    IN  [found |-> DataStore_has(src, key),
         value |-> IF ~DataStore_has(src, key) THEN UserSession(0)
                   ELSE IF from_redis THEN json_loads(src[key]) ELSE src[key],
         raised |-> FALSE]

\* DataStore.delete: a failure of the backend is logged and nothing else
DataStore_delete_backend(b, mem, red, key, fails) ==
    IF b = "redis"
    THEN [memory |-> mem,
          redis |-> IF fails THEN red ELSE [k \in (DOMAIN red) \ {key} |-> red[k]],
          raised |-> FALSE]
    ELSE [memory |-> [k \in (DOMAIN mem) \ {key} |-> mem[k]], redis |-> red,
          raised |-> FALSE]

\* get_health_status, the figure active_users: the keys of memory_store that
\* start with "user:" (the model holds no other keys)
get_health_status(mem) == [active_users |-> Cardinality(DOMAIN mem)]

\* --------------------------------------------------------- outbound calls
\* One record per request to the Telegram API.  chat is the chat id (the
\* sender's private chat), text names the message sent, anon is the
\* is_anonymous flag of a poll (or the quiz type named in a message), n the
\* question index of a poll (or the count reported by the summary), ok the
\* result of the call.  The handlers discard the result of every call except
\* send_poll, so only polls record a result that may be FALSE.  nopts and
\* correct are the number of options and the correct_option_id of a poll.
\*
\* A value of key "c" is an integer, a boolean (which Python takes for the
\* integer 0 or 1 in isinstance and in comparisons) or anything else.
IntIndex(v) == [type |-> "int", val |-> v]
BoolIndex(v) == [type |-> "bool", val |-> v]
OtherIndex == [type |-> "other", val |-> 0]

Call(method, chat, text, anon, n, ok) ==
    [method |-> method, chat |-> chat, text |-> text, anon |-> anon, n |-> n, ok |-> ok,
     nopts |-> 0, correct |-> IntIndex(0)]

Min(a, b) == IF a < b THEN a ELSE b

max_poll_options == 10

\* send_poll, the options: at most 10 are kept, fewer than 2 are replaced by
\* the two placeholders
sent_options(nopts) ==
    IF Min(nopts, max_poll_options) < 2 THEN 2 ELSE Min(nopts, max_poll_options)

\* send_poll, the check of correct_id against the options that are sent
coerce_correct_id(correct, nopts) ==
    IF correct.type = "other" \/ correct.val < 0 \/ correct.val >= nopts
    THEN IntIndex(0)
    ELSE correct

send_message(chat, text) == Call("sendMessage", chat, text, TRUE, 0, TRUE)
send_message_typed(chat, text, anon, n) == Call("sendMessage", chat, text, anon, n, TRUE)
send_poll(chat, i, nopts, correct, anon, ok) ==
    [Call("sendPoll", chat, "poll", anon, i, ok) EXCEPT
        !.nopts = sent_options(nopts),
        !.correct = coerce_correct_id(correct, sent_options(nopts))]
answer_callback_query(chat) == Call("answerCallbackQuery", chat, "", TRUE, 0, TRUE)
edit_message_text(chat, anon) == Call("editMessageText", chat, "selected", anon, 0, TRUE)

\* ---------------------------------------------------------------- updates
\* A question object of the all_q array: isdict is FALSE for an array entry
\* that is not a JSON object; has_o says whether key "o" is present and
\* nopts is the length of its list (below, at and above the minimum of 2).
\* c is the value of key "c", 0 when the key is absent.
OptionCounts == {1, 2, 3}

Questions ==
    {[isdict |-> FALSE, has_o |-> FALSE, nopts |-> 0, c |-> IntIndex(0)],
     [isdict |-> TRUE, has_o |-> FALSE, nopts |-> 0, c |-> IntIndex(0)]}
    \cup {[isdict |-> TRUE, has_o |-> TRUE, nopts |-> n, c |-> IntIndex(0)] :
             n \in OptionCounts}

TwoOptionQuestion == [isdict |-> TRUE, has_o |-> TRUE, nopts |-> 2, c |-> IntIndex(0)]

\* the all_q arrays submitted: up to MaxQuestions entries, all of them
\* two-option questions except at most one entry, which is any question
QuestionLists ==
    UNION { { [i \in 1..n |-> IF i = k THEN q ELSE TwoOptionQuestion] :
                k \in 1..n, q \in Questions } : n \in 1..MaxQuestions }

Prefixes == {"/start", "/help", "/status", "/template", "{", "none"}

NoUpdate ==
    [kind |-> "none", wf |-> TRUE, user |-> 0, prefix |-> "none", has_allq |-> FALSE,
     parse |-> "malformed", all_q |-> "falsy", questions |-> <<>>, data |-> "other"]

\* a message whose stripped text starts with prefix and contains (or not)
\* the substring "all_q" in quotes
TextMessage(u, prefix, has_allq) ==
    [NoUpdate EXCEPT !.kind = "message", !.user = u, !.prefix = prefix,
                     !.has_allq = has_allq]

\* handle_message with the test for a quiz submission made first
Branch_json_first(upd) ==
    IF upd.prefix = "{" \/ upd.has_allq THEN "json"
    ELSE IF upd.prefix = "/start" THEN "start"
    ELSE IF upd.prefix = "/help" THEN "help"
    ELSE IF upd.prefix = "/status" THEN "status"
    ELSE IF upd.prefix = "/template" THEN "template"
    ELSE "other"

\* the branch of handle_message taken for a text: first match wins
Branch(upd) ==
    IF upd.prefix = "/start" THEN "start"
    ELSE IF upd.prefix = "/help" THEN "help"
    ELSE IF upd.prefix = "/status" THEN "status"
    ELSE IF upd.prefix = "/template" THEN "template"
    ELSE IF upd.prefix = "{" \/ upd.has_allq THEN "json"
    ELSE "other"

\* ----------------------------------------------------------- quiz handler
\* the options handed to send_poll for one question: q_data.get("o", [A, B])
options_len(q) == IF q.has_o THEN q.nopts ELSE 2

\* the loop body without the check of len(options)
sends_poll_any_length(q) == q.isdict

\* the loop body of handle_json_quiz sends a poll for entry q or skips it
\* (an entry that is no object raises inside the inner try and is skipped)
sends_poll(q) == q.isdict /\ options_len(q) >= 2

\* the loop of lines 667-688 that gives up at the first poll that fails
RECURSIVE poll_calls_abort_on_failure(_, _, _, _, _, _)
poll_calls_abort_on_failure(chat, questions, max_questions, anon, res, i) ==
    IF i > max_questions THEN <<>>
    ELSE IF sends_poll(questions[i])
    THEN <<send_poll(chat, i, options_len(questions[i]), questions[i].c, anon, res[i])>>
         \o (IF res[i]
              THEN poll_calls_abort_on_failure(chat, questions, max_questions,
                                               anon, res, i + 1)
              ELSE <<>>)
    ELSE poll_calls_abort_on_failure(chat, questions, max_questions, anon, res, i + 1)

\* the loop of lines 667-688 over questions[:max_questions], from entry i on
RECURSIVE poll_calls(_, _, _, _, _, _)
poll_calls(chat, questions, max_questions, anon, res, i) ==
    IF i > max_questions THEN <<>>
    ELSE (IF sends_poll(questions[i])
          THEN <<send_poll(chat, i, options_len(questions[i]), questions[i].c,
                           anon, res[i])>>
          ELSE <<>>) \o poll_calls(chat, questions, max_questions, anon, res, i + 1)

\* the handler's success_count: one for every send_poll that returned True
success_count(calls) ==
    Cardinality({i \in 1..Len(calls) : calls[i].method = "sendPoll" /\ calls[i].ok})

\* what the calls add to stats.successful_polls: send_poll adds one when
\* the request returned a result (line 488-490)
RECURSIVE successful_polls(_)
successful_polls(calls) ==
    IF calls = <<>> THEN 0
    ELSE (IF Head(calls).method = "sendPoll" /\ Head(calls).ok THEN 1 ELSE 0)
         + successful_polls(Tail(calls))

\* process_questions over the whole array, without max_questions_per_quiz
process_questions_uncapped(session, u, upd, res) ==
    LET polls == poll_calls(u, upd.questions, Len(upd.questions),
                            session.anonymous, res, 1)
    IN  [out |-> <<send_message(u, "processing")>> \o polls \o
                 <<send_message_typed(u, "summary", session.anonymous,
                                      success_count(polls)),
                   send_message(u, "another")>>,
         session |-> [session EXCEPT !.quiz_count = @ + 1,
                                     !.state = "choosing_type"]]

\* process_questions with send_poll's default is_anonymous=True instead of
\* session.anonymous
process_questions_default_anonymous(session, u, upd, res) ==
    LET max_questions == Min(Len(upd.questions), max_questions_per_quiz)
        polls == poll_calls(u, upd.questions, max_questions, TRUE, res, 1)
    IN  [out |-> <<send_message(u, "processing")>> \o polls \o
                 <<send_message_typed(u, "summary", session.anonymous,
                                      success_count(polls)),
                   send_message(u, "another")>>,
         session |-> [session EXCEPT !.quiz_count = @ + 1,
                                     !.state = "choosing_type"]]

\* the outcome of a submission with a list of questions (lines 661-696)
process_questions(session, u, upd, res) ==
    LET max_questions == Min(Len(upd.questions), max_questions_per_quiz)
        polls == poll_calls(u, upd.questions, max_questions,
                            session.anonymous, res, 1)
    IN  [out |-> <<send_message(u, "processing")>> \o polls \o
                 <<send_message_typed(u, "summary", session.anonymous,
                                      success_count(polls)),
                   send_message(u, "another")>>,
         session |-> [session EXCEPT !.quiz_count = @ + 1,
                                     !.state = "choosing_type"]]

\* json_quiz_body without the check of session.state
json_quiz_body_unchecked(session, u, upd, res) ==
    IF upd.parse = "malformed"
    THEN [out |-> <<send_message(u, "invalid_json")>>, session |-> session]
    ELSE IF upd.parse = "nonobject"
    THEN [out |-> <<send_message(u, "error")>>, session |-> session]
    ELSE IF upd.all_q = "falsy"
    THEN [out |-> <<send_message(u, "no_questions")>>, session |-> session]
    ELSE IF upd.all_q = "unsliceable"
    THEN [out |-> <<send_message(u, "processing"), send_message(u, "error")>>,
          session |-> session]
    ELSE process_questions(session, u, upd, res)

\* json_quiz_body without the except clause for JSONDecodeError: a text
\* that is no JSON ends in the generic handler
json_quiz_body_generic_error(session, u, upd, res) ==
    IF session.state # "waiting_json"
    THEN [out |-> <<send_message(u, "use_start")>>, session |-> session]
    ELSE IF upd.parse \in {"malformed", "nonobject"}
    THEN [out |-> <<send_message(u, "error")>>, session |-> session]
    ELSE IF upd.all_q = "falsy"
    THEN [out |-> <<send_message(u, "no_questions")>>, session |-> session]
    ELSE IF upd.all_q = "unsliceable"
    THEN [out |-> <<send_message(u, "processing"), send_message(u, "error")>>,
          session |-> session]
    ELSE process_questions(session, u, upd, res)

\* handle_json_quiz after get_user_session: session is the local object,
\* the result is the calls issued and the local object at the end (which is
\* not written back)
json_quiz_body(session, u, upd, res) ==
    IF session.state # "waiting_json"
    THEN [out |-> <<send_message(u, "use_start")>>, session |-> session]
    ELSE IF upd.parse = "malformed"
    THEN [out |-> <<send_message(u, "invalid_json")>>, session |-> session]
    ELSE IF upd.parse = "nonobject"
    THEN [out |-> <<send_message(u, "error")>>, session |-> session]
    ELSE IF upd.all_q = "falsy"
    THEN [out |-> <<send_message(u, "no_questions")>>, session |-> session]
    ELSE IF upd.all_q = "unsliceable"
    THEN [out |-> <<send_message(u, "processing"), send_message(u, "error")>>,
          session |-> session]
    ELSE process_questions(session, u, upd, res)

handle_json_quiz(m, t, upd, res) ==
    LET got  == get_user_session(m, upd.user, t)
        body == json_quiz_body(got.session, upd.user, upd, res)
    IN  [store |-> got.store, out |-> body.out, session |-> body.session]

\* ---------------------------------------------------------- /start handler
start_body(session, u) ==
    [out |-> <<send_message(u, "welcome")>>,
     session |-> [session EXCEPT !.state = "choosing_type"]]

handle_start_command(m, t, upd) ==
    LET got  == get_user_session(m, upd.user, t)
        body == start_body(got.session, upd.user)
    IN  [store |-> got.store, out |-> body.out, session |-> body.session]

\* -------------------------------------------------------- callback handler
\* the session object after lines 579-581
callback_session(session, data) ==
    [session EXCEPT !.anonymous = (data = "anon_true"), !.state = "waiting_json"]

callback_tail(u, anon) ==
    <<edit_message_text(u, anon),
      send_message(u, "template_header"),
      send_message(u, "template"),
      send_message_typed(u, "instructions", anon, 0)>>

\* handle_callback_query without the data_store.set of line 584
handle_callback_query_unsaved(m, t, upd) ==
    IF ~upd.wf
    THEN [store |-> m, out |-> <<>>, session |-> UserSession(t)]
    ELSE LET got     == get_user_session(m, upd.user, t)
             session == callback_session(got.session, upd.data)
         IN  [store |-> got.store,
              out |-> <<answer_callback_query(upd.user)>> \o
                      callback_tail(upd.user, session.anonymous),
              session |-> session]

\* a callback_query lacking one of id, from.id, data, message.chat.id or
\* message.message_id raises KeyError before any call is made
handle_callback_query(m, t, upd) ==
    IF ~upd.wf
    THEN [store |-> m, out |-> <<>>, session |-> UserSession(t)]
    ELSE LET got     == get_user_session(m, upd.user, t)
             session == callback_session(got.session, upd.data)
         IN  [store |-> DataStore_set(got.store, upd.user, session),
              out |-> <<answer_callback_query(upd.user)>> \o
                      callback_tail(upd.user, session.anonymous),
              session |-> session]

\* --------------------------------------------------------- message handler
\* a message lacking from.id or chat.id (or with a text that is no string)
\* raises before any branch is taken
\* handle_message that reads the sender's session before it branches
handle_message_touching(m, t, upd, res) ==
    IF ~upd.wf
    THEN [store |-> m, out |-> <<>>, session |-> UserSession(t)]
    ELSE IF Branch(upd) = "start" THEN handle_start_command(m, t, upd)
    ELSE IF Branch(upd) = "json" THEN handle_json_quiz(m, t, upd, res)
    ELSE [store |-> get_user_session(m, upd.user, t).store,
          out |-> <<send_message(upd.user, "nudge")>>,
          session |-> UserSession(t)]

handle_message(m, t, upd, res) ==
    IF ~upd.wf
    THEN [store |-> m, out |-> <<>>, session |-> UserSession(t)]
    ELSE IF Branch(upd) = "start" THEN handle_start_command(m, t, upd)
    ELSE IF Branch(upd) = "json" THEN handle_json_quiz(m, t, upd, res)
    ELSE IF Branch(upd) = "help"
    THEN [store |-> m, out |-> <<send_message(upd.user, "help")>>,
          session |-> UserSession(t)]
    ELSE IF Branch(upd) = "status"
    THEN [store |-> m, out |-> <<send_message(upd.user, "status")>>,
          session |-> UserSession(t)]
    ELSE IF Branch(upd) = "template"
    THEN [store |-> m,
          out |-> <<send_message(upd.user, "template_header"),
                    send_message(upd.user, "template"),
                    send_message(upd.user, "template_hint")>>,
          session |-> UserSession(t)]
    ELSE [store |-> m, out |-> <<send_message(upd.user, "nudge")>>,
          session |-> UserSession(t)]

\* -------------------------------------------------- dispatcher and webhook
\* The kinds of request body: "message" and "callback_query" are objects
\* with that key, "other" is any other JSON value that supports the test
\* 'message' in update_data (an object without the two keys, an array, a
\* string), "nondict" is a JSON number, boolean or null, on which the test
\* raises TypeError; "empty" is a request without a body and "notjson" a
\* body that json.loads rejects.
JsonKinds == {"message", "callback_query", "other", "nondict"}
BadBodyKinds == {"empty", "notjson"}

\* the body of the try statement of process_update raises
dispatch_raises(upd) == upd.kind = "nondict"

\* the body of the try statement of process_update (handle_message and
\* handle_callback_query catch every exception themselves)
dispatch(m, t, upd, res) ==
    IF upd.kind = "message" THEN handle_message(m, t, upd, res)
    ELSE IF upd.kind = "callback_query" THEN handle_callback_query(m, t, upd)
    ELSE [store |-> m, out |-> <<>>, session |-> UserSession(t)]

\* process_update without its except clause
process_update_uncaught(m, t, upd, res) ==
    LET r == dispatch(m, t, upd, res)
    IN  [store |-> r.store, out |-> r.out, session |-> r.session,
         raised |-> dispatch_raises(upd)]

\* process_update: raised says whether an exception reaches the caller
process_update(m, t, upd, res) ==
    LET r == dispatch(m, t, upd, res)
    IN  [store |-> r.store, out |-> r.out, session |-> r.session,
         raised |-> FALSE]

NoStats == [total_requests |-> 0, successful_polls |-> 0]

\* the webhook view: the status of the response ({"ok": true} goes with
\* 200, {"error": ...} with 400 and 500) and what the request added to the
\* counters total_requests and successful_polls of BotStats
webhook(m, t, upd, res) ==
    IF upd.kind \in BadBodyKinds
    THEN [store |-> m, out |-> <<>>, status |-> 400, stats |-> NoStats]
    ELSE LET r == process_update(m, t, upd, res)
         IN  [store |-> r.store, out |-> r.out,
              status |-> IF r.raised THEN 500 ELSE 200,
              stats |-> [total_requests |-> 1,
                         successful_polls |-> successful_polls(r.out)]]

\* ------------------------------------------------------------ input sets
\* the results of the sendPoll requests of one submission, by question index
PollResults(questions) ==
    [{i \in 1..Len(questions) : sends_poll(questions[i])} -> BOOLEAN]

NoPolls == <<>>

OneQuestion == <<TwoOptionQuestion>>

\* the quiz submissions: a text starting with "{" is malformed or parses to
\* an object; a text that only contains "all_q" is malformed or parses to a
\* value that is no object
\* (an object whose all_q value is not empty contains the substring "all_q")
JsonBodies(prefix, has_allq) ==
    IF prefix = "{"
    THEN {[parse |-> "malformed", all_q |-> "falsy", questions |-> <<>>],
          [parse |-> "object", all_q |-> "falsy", questions |-> <<>>]}
         \cup (IF has_allq
               THEN {[parse |-> "object", all_q |-> "unsliceable", questions |-> <<>>]}
                    \cup {[parse |-> "object", all_q |-> "list", questions |-> qs] :
                            qs \in QuestionLists}
               ELSE {})
    ELSE {[parse |-> "malformed", all_q |-> "falsy", questions |-> <<>>],
          [parse |-> "nonobject", all_q |-> "falsy", questions |-> <<>>]}

QuizSubmission(u, prefix, has_allq, body) ==
    [TextMessage(u, prefix, has_allq) EXCEPT !.parse = body.parse,
        !.all_q = body.all_q, !.questions = body.questions]

CallbackQuery(u, data, wf) ==
    [NoUpdate EXCEPT !.kind = "callback_query", !.user = u, !.data = data, !.wf = wf]

CallbackData == {"anon_true", "anon_false", "other"}

\* the arrays handed to the submission handler in SpecQ: every array of up
\* to MaxBatch questions, every single question with an option list and a
\* value of "c", and arrays around the limit of 25 entries
CorrectValues ==
    {IntIndex(v) : v \in {-1, 0, 1, 2, 3, 10, 99}}
    \cup {BoolIndex(0), BoolIndex(1), OtherIndex}

IndexOptionCounts == {2, 3, 11}

BatchLists == UNION { [1..n -> Questions] : n \in 1..MaxBatch }

IndexLists ==
    { <<[isdict |-> TRUE, has_o |-> TRUE, nopts |-> n, c |-> c]>> :
        n \in IndexOptionCounts, c \in CorrectValues }

LongLists ==
    UNION { { [i \in 1..n |-> IF i = k THEN q ELSE TwoOptionQuestion] :
                k \in 1..n, q \in Questions } :
            n \in (max_questions_per_quiz - 1)..(max_questions_per_quiz + MaxExtra) }

BatchInputs == BatchLists \cup IndexLists \cup LongLists

\* the results of the polls of a long array: all succeed, all fail, or
\* every other one fails
BatchResults(questions) ==
    IF Len(questions) <= MaxBatch
    THEN PollResults(questions)
    ELSE LET sent == {i \in 1..Len(questions) : sends_poll(questions[i])}
         IN  {[i \in sent |-> TRUE], [i \in sent |-> FALSE], [i \in sent |-> i % 2 = 0]}

\* the session dictionaries stored in SpecD
StoreValues ==
    {UserSession(StartTime),
     UserSession(StartTime + user_ttl),
     [UserSession(StartTime) EXCEPT !.state = "waiting_json"],
     [UserSession(StartTime) EXCEPT !.state = "waiting_json", !.anonymous = FALSE]}

NoCall ==
    [op |-> "none", key |-> 0, value |-> UserSession(StartTime), found |-> FALSE,
     failed |-> FALSE, raised |-> FALSE, count |-> 0]

NoButton == "none"

\* ------------------------------------------------ outbound HTTP requests
\* What the Telegram API (or the network) does with one request:
\*   ok                status 200, body {"ok": true, ...}
\*   api_error         status 200, body {"ok": false, ...}
\*   api_error_429     status 200, body {"ok": false, "error_code": 429, ...}
\*   list_body         status 200, body a non-empty JSON array
\*   not_json          status 200, body that is no JSON
\*   timeout           requests raises Timeout
\*   connection_error  requests raises ConnectionError
\*   status_4xx, status_429, status_5xx   the status of the final response
HttpOutcomes ==
    {"ok", "api_error", "api_error_429", "list_body", "not_json", "timeout",
     "connection_error", "status_4xx", "status_429", "status_5xx"}

\* the outcomes named as failures of the outbound call
HttpFailures == {"timeout", "connection_error", "status_4xx", "status_429", "status_5xx"}

\* ReliableHTTPClient._handle_response: the body of a 200, None otherwise;
\* response.json() raises on a body that is no JSON
handle_response(outcome) ==
    CASE outcome = "ok" -> [value |-> "ok_dict", raised |-> FALSE]
      [] outcome = "api_error" -> [value |-> "error_dict", raised |-> FALSE]
      [] outcome = "api_error_429" -> [value |-> "error_dict_429", raised |-> FALSE]
      [] outcome = "list_body" -> [value |-> "list", raised |-> FALSE]
      [] outcome = "not_json" -> [value |-> "None", raised |-> TRUE]
      [] OTHER -> [value |-> "None", raised |-> FALSE]

\* ReliableHTTPClient.post: every exception, of the request or of
\* _handle_response, is logged and None is returned
post(outcome) ==
    IF outcome \in {"timeout", "connection_error"} \/ handle_response(outcome).raised
    THEN "None"
    ELSE handle_response(outcome).value

stop_after_attempt == 3

\* One execution of the body of QuizBot._make_telegram_request: api_calls is
\* incremented, the result is returned when it is a dictionary with a true
\* "ok", None otherwise; rate_limit_hits is incremented for a dictionary with
\* a false "ok" and error_code 429. result.get raises AttributeError on a
\* list, which is no RequestException: retryable is whether what was raised
\* is of a type named by retry_if_exception_type.
telegram_request_body(outcome) ==
    [value |-> IF post(outcome) = "ok_dict" THEN "ok_dict" ELSE "None",
     raised |-> post(outcome) = "list",
     retryable |-> FALSE,
     api_calls |-> 1,
     rate_limit_hits |-> IF post(outcome) = "error_dict_429" THEN 1 ELSE 0]

\* The retry decorator of _make_telegram_request from attempt k on: the body
\* is executed again when it raised a retryable exception and fewer than
\* stop_after_attempt attempts were made; outcomes[k] is what the network
\* does with attempt k.
RECURSIVE retry(_, _)
retry(outcomes, k) ==
    LET r == telegram_request_body(outcomes[k])
    IN  IF r.raised /\ r.retryable /\ k < stop_after_attempt
        THEN LET rest == retry(outcomes, k + 1)
             IN  [rest EXCEPT !.api_calls = @ + r.api_calls,
                              !.rate_limit_hits = @ + r.rate_limit_hits]
        ELSE [value |-> r.value, raised |-> r.raised, attempts |-> k,
              api_calls |-> r.api_calls, rate_limit_hits |-> r.rate_limit_hits]

\* QuizBot._make_telegram_request with its decorator
make_telegram_request(outcomes) == retry(outcomes, 1)

max_message_length == 4096
max_question_length == 300
max_option_length == 100
max_explanation_length == 200
max_callback_text_length == 200
empty_message_length == 13
placeholder_option_length == 8

\* a slice text[:limit] without the cut
untruncated(len, limit) == len

\* the slice text[:limit], as a length
truncated(len, limit) == Min(len, limit)

\* an except clause that re-raises
except_clause_reraise(r, failure) == r

\* the except clause of the four operations: the exception is logged and the
\* failure value is returned
except_clause(r, failure) ==
    IF r.raised THEN [r EXCEPT !.raised = FALSE, !.result = failure] ELSE r

\* The record of one operation: the payload handed to _make_telegram_request
\* (lengths in characters, 0 for a field the payload does not have), whether
\* the request was made, what the operation returned and whether it raised.
Sent(op, input, outcomes, text, question, option, explanation, req) ==
    [op |-> op, input |-> input, outcome |-> outcomes[1], outcomes |-> outcomes,
     attempts |-> req.attempts, api_calls |-> req.api_calls,
     rate_limit_hits |-> req.rate_limit_hits, sent |-> TRUE,
     text |-> text, question |-> question, option |-> option,
     explanation |-> explanation,
     result |-> IF req.raised THEN "raised"
                ELSE IF op = "answerCallbackQuery" THEN "None"
                ELSE IF req.value = "None" THEN "False" ELSE "True",
     raised |-> req.raised]

NoInput == [len |-> 0, blank |-> TRUE, question |-> 0, option |-> 0,
            explanation |-> 0, sliceable |-> TRUE]

NoSend ==
    [op |-> "none", input |-> NoInput, outcome |-> "ok", outcomes |-> <<>>,
     attempts |-> 0, api_calls |-> 0, rate_limit_hits |-> 0, sent |-> FALSE, text |-> 0,
     question |-> 0, option |-> 0, explanation |-> 0, result |-> "None",
     raised |-> FALSE]

\* send_message on a text of input.len characters (blank: nothing but white
\* space) when attempt k of the request ends in outcomes[k]
send_message_request(input, outcomes) ==
    except_clause(
        Sent("sendMessage", input, outcomes,
             IF input.blank \/ input.len = 0
             THEN empty_message_length
             ELSE truncated(input.len, max_message_length),
             0, 0, 0, make_telegram_request(outcomes)),
        "False")

\* send_poll on a question of input.question characters, options whose
\* longest has input.option characters (0: fewer than two options, which
\* the two placeholders replace) and an explanation of
\* input.explanation characters (0: none); sliceable is FALSE for a value of
\* "o" that cannot be sliced (a JSON object), on which options[:10] raises
send_poll_request(input, outcomes) ==
    except_clause(
        IF ~input.sliceable
        THEN [NoSend EXCEPT !.op = "sendPoll", !.input = input,
                            !.outcome = outcomes[1], !.outcomes = outcomes,
                            !.result = "raised", !.raised = TRUE]
        ELSE Sent("sendPoll", input, outcomes, 0,
                  truncated(input.question, max_question_length),
                  IF input.option = 0
                  THEN placeholder_option_length
                  ELSE truncated(input.option, max_option_length),
                  truncated(input.explanation, max_explanation_length),
                  make_telegram_request(outcomes)),
        "False")

answer_callback_query_request(input, outcomes) ==
    except_clause(
        Sent("answerCallbackQuery", input, outcomes,
             truncated(input.len, max_callback_text_length), 0, 0, 0,
             make_telegram_request(outcomes)),
        "None")

edit_message_text_request(input, outcomes) ==
    except_clause(
        Sent("editMessageText", input, outcomes,
             truncated(input.len, max_message_length), 0, 0, 0,
             make_telegram_request(outcomes)),
        "False")

\* What the network does with the attempts of one request: the same at every
\* attempt, or a first attempt followed by attempts that succeed.
AttemptOutcomes ==
    {[k \in 1..stop_after_attempt |-> o] : o \in HttpOutcomes} \cup
    {[k \in 1..stop_after_attempt |-> IF k = 1 THEN o ELSE "ok"] : o \in HttpOutcomes}

\* lengths around a limit
Lengths(limit) == {0, 1, limit} \cup (limit + 1 .. limit + MaxExtra)

TextInputs(limit) ==
    {[NoInput EXCEPT !.len = n, !.blank = b] :
        n \in Lengths(limit), b \in BOOLEAN} \ {[NoInput EXCEPT !.blank = FALSE]}

PollInputs ==
    {[NoInput EXCEPT !.question = q, !.option = o, !.explanation = e, !.sliceable = s] :
        q \in Lengths(max_question_length), o \in Lengths(max_option_length),
        e \in Lengths(max_explanation_length), s \in BOOLEAN}

\* ------------------------------------- the external keep-alive service
\* src/external_keepalive.py, UltraReliableKeepAlive
alert_threshold == 3
max_consecutive_failures == 10

\* the bots of bot_urls, in the order of the list
Bots == 1..NumBots

\* What a GET of <bot>/health ends in:
\*   healthy           status 200, body a JSON object
\*   list_body         status 200, body a JSON array
\*   not_json          status 200, body that is no JSON
\*   timeout, connection_error   raised by requests
\*   status_503        the status of the final response
PingOutcomes ==
    {"healthy", "list_body", "not_json", "timeout", "connection_error", "status_503"}

\* ping_bot: True for a 200 whose body is a JSON object; every other status
\* and every exception (of the request, of response.json(), of
\* health_data.get) gives False
ping_bot(outcome) == outcome = "healthy"

\* self.stats after __init__ and the position of run_forever:
\*   pc       "ping" (ping_all_bots is about to ping bot), "end_cycle"
\*            (ping_all_bots has returned), "stopped" (the loop was left)
\*   current_downtime_start   0 for None, otherwise the ordinal of the ping
\*            at which datetime.now() was read
\*   alerts   the alerts send_alert was called for by the latest ping
\*   result, outcome   of the latest ping
KeepAliveInit ==
    [pc |-> "ping", reason |-> "none", bot |-> 1, ping_cycle |-> 1,
     total_pings |-> 0, successful_pings |-> 0, failed_pings |-> 0,
     current_downtime_start |-> 0, consecutive_failures |-> 0,
     recovery_attempts |-> 0, alerts |-> {}, emergency_alert |-> FALSE,
     result |-> "none", outcome |-> "none"]

\* UltraReliableKeepAlive.handle_failure
keepalive_handle_failure(s) ==
    LET failures == s.consecutive_failures + 1
        starts == s.current_downtime_start = 0
    IN  [s EXCEPT !.failed_pings = @ + 1,
                  !.consecutive_failures = failures,
                  !.current_downtime_start = IF starts THEN s.total_pings ELSE @,
                  !.alerts = (IF starts /\ failures >= alert_threshold
                              THEN {"down"} ELSE {}) \cup
                             (IF failures = 5 THEN {"still_down"}
                              ELSE IF failures = 10 THEN {"critical"} ELSE {}),
                  !.result = "failure"]

\* handle_success that leaves current_downtime_start as it is
keepalive_handle_success_in_downtime(s) ==
    [s EXCEPT !.successful_pings = @ + 1, !.alerts = {},
              !.consecutive_failures = 0, !.result = "success"]

\* UltraReliableKeepAlive.handle_success
keepalive_handle_success(s) ==
    [s EXCEPT !.successful_pings = @ + 1,
              !.recovery_attempts = IF s.current_downtime_start # 0 THEN @ + 1 ELSE @,
              !.alerts = IF s.current_downtime_start # 0 THEN {"recovered"} ELSE {},
              !.current_downtime_start = 0,
              !.consecutive_failures = 0,
              !.result = "success"]

\* the test of run_forever after ping_all_bots
emergency_shutdown(s) == s.consecutive_failures >= max_consecutive_failures

\* ------------------------------------------------------------ the monitor
\* src/monitor.py, UltraAdvancedBotMonitor, watching the /health endpoint
check_interval == 300
alert_cooldown == 1800

BotStates == {"starting", "running", "stopping", "error"}

\* the /health endpoint of the bot: 200 when get_health_status reports
\* "healthy", which it does in state RUNNING only, 503 otherwise
health_check(state) ==
    LET status == IF state = "running" THEN "healthy" ELSE "unhealthy"
    IN  [code |-> IF status = "healthy" THEN 200 ELSE 503, status |-> status]

\* the answers of a /health endpoint: those of the bot in each state, the
\* 500 of its except clause, and a 200 whose status is not "healthy"
HealthResponses ==
    {health_check(state) : state \in BotStates} \cup
    {[code |-> 500, status |-> "error"], [code |-> 200, status |-> "degraded"]}

\* the rules of alert_rules that compare a metric with a threshold
ThresholdRules ==
    {"High Error Rate", "High Response Time", "High Memory Usage",
     "Rate Limit Issues", "Recovery Attempts"}

\* What one GET of <bot>/health ends in: an exception of requests, or a
\* response (json: the body is a JSON object) whose metrics exceed the
\* thresholds of the rules in exceeded.
CheckOutcomes ==
    {[raised |-> e, code |-> 0, status |-> "none", json |-> FALSE, exceeded |-> {}] :
        e \in {"Timeout", "ConnectionError"}} \cup
    {[raised |-> "none", code |-> r.code, status |-> r.status, json |-> j,
      exceeded |-> x] :
        r \in HealthResponses, j \in BOOLEAN, x \in {{}, {"High Response Time"}}}

\* self.stats and the table downtime_events after __init__, and the position
\* of monitor_loop:
\*   bot          the bot the for loop is about to check
\*   time         time.time()
\*   unresolved, resolved   per bot, the number of its rows of
\*                downtime_events with resolved FALSE and with resolved TRUE
\*   last_alerts  _last_alerts: per rule the time of its latest alert, 0 for
\*                a rule without entry
\*   alerts       the rules send_alert issued an alert for in the latest check
\*   latest, down, checks_done, failures_done, failed_since_success
\*                what the checks made so far were (not read by the monitor)
MonitorInit ==
    [pc |-> "check", bot |-> 1, check_cycle |-> 1, time |-> StartTime,
     total_checks |-> 0, successful_checks |-> 0, failed_checks |-> 0,
     consecutive_failures |-> 0, alert_count |-> 0,
     unresolved |-> [b \in Bots |-> 0], resolved |-> [b \in Bots |-> 0],
     last_alerts |-> [r \in ThresholdRules \cup {"Bot Down"} |-> 0],
     alerts |-> {},
     latest |-> [b \in Bots |-> "none"], down |-> FALSE,
     checks_done |-> 0, failures_done |-> 0, failed_since_success |-> 0]

\* what the claim calls a bot that is down
bot_down(o) == o.raised # "none" \/ o.code # 200

\* check_alert_rules: the rules whose condition holds for the metrics
should_alert(o) ==
    o.exceeded \cup (IF o.status # "healthy" THEN {"Bot Down"} ELSE {})

\* send_alert for each rule of rules, with the cooldown per alert key (every
\* rule has one severity, so the key is the rule); telegram_token and
\* alert_chat_id are configured
send_alert(s, rules) ==
    LET issued == {r \in rules :
                     ~(s.last_alerts[r] # 0 /\ s.time - s.last_alerts[r] < alert_cooldown)}
    IN  [s EXCEPT !.last_alerts = [r \in DOMAIN @ |-> IF r \in issued THEN s.time ELSE @[r]],
                  !.alert_count = @ + Cardinality(issued),
                  !.alerts = issued]

\* _record_downtime_event: a row is inserted unless the bot has an unresolved one
record_downtime_event(s, b) ==
    [s EXCEPT !.unresolved[b] = IF @ = 0 THEN 1 ELSE @]

\* UltraAdvancedBotMonitor.handle_failure
monitor_handle_failure(s, b) ==
    record_downtime_event(
        [s EXCEPT !.failed_checks = @ + 1, !.consecutive_failures = @ + 1,
                  !.alerts = {}], b)

\* resolve_downtime_event: the latest unresolved row of the bot, if any
resolve_downtime_event(s, b) ==
    IF s.unresolved[b] > 0
    THEN [s EXCEPT !.unresolved[b] = @ - 1, !.resolved[b] = @ + 1]
    ELSE s

\* check_bot_health: True for a 200 with a JSON object (the metrics are
\* saved and the rules checked); handle_failure and False for every other
\* status and every exception
check_bot_health(s, b, o) ==
    IF o.raised = "none" /\ o.code = 200 /\ o.json
    THEN [success |-> TRUE, stats |-> send_alert(s, should_alert(o))]
    ELSE [success |-> FALSE, stats |-> monitor_handle_failure(s, b)]

\* the body of the for loop of monitor_loop for bot b
check_one_bot(s, b, o) ==
    LET c == check_bot_health(s, b, o)
    IN  IF c.success
        THEN LET t == [c.stats EXCEPT !.successful_checks = @ + 1]
             IN  IF t.consecutive_failures > 0
                 THEN resolve_downtime_event([t EXCEPT !.consecutive_failures = 0], b)
                 ELSE t
        ELSE [c.stats EXCEPT !.failed_checks = @ + 1, !.consecutive_failures = @ + 1]

\* ------------------------------------------------------ background workers
Workers == {"keep_alive", "cleanup"}

\* the test made right after time.sleep returns, without the test
after_sleep_unchecked(flag) == "work"

\* the test made right after time.sleep returns: break when the flag is set
after_sleep(flag) == IF flag THEN "done" ELSE "work"

\* _keep_alive_ping: a GET of /health through ReliableHTTPClient.get, which
\* returns None on every failure; nothing is raised and nothing returned
keep_alive_ping(outcome) ==
    [NoSend EXCEPT !.op = "keep_alive_ping", !.outcome = outcome, !.sent = TRUE]

\* the loop condition of both workers
loop_condition(flag) == IF flag THEN "done" ELSE "sleep"


\* -------------------------------------------------------------- actions
\* one request to the webhook
Request(upd, res) ==
    \E r \in {webhook(memory_store, now, upd, res)} :
        /\ memory_store' = r.store
        /\ out' = r.out
        /\ last' = upd
        /\ response' = r.status
        /\ stats_delta' = r.stats
        /\ UNCHANGED <<now, nticks, threadVars, storeVars, auxVars>>

\* a request in the specifications that keep no record of the presses
Handled(upd, res) ==
    /\ Request(upd, res)
    /\ UNCHANGED pressed

\* a text message that starts with a command, with or without "all_q" in
\* it, or that starts with nothing special and does not contain "all_q"
HandleCommand ==
    \E u \in Users, prefix \in Prefixes, has_allq \in BOOLEAN :
        /\ prefix # "{"
        /\ prefix = "none" => ~has_allq
        /\ Handled(TextMessage(u, prefix, has_allq), NoPolls)

\* a text message that starts with "{" or contains "all_q"
HandleQuizSubmission ==
    \E u \in Users, prefix \in {"{", "none"}, has_allq \in BOOLEAN :
        /\ prefix = "{" \/ has_allq
        /\ \E body \in JsonBodies(prefix, has_allq) :
           \E res \in PollResults(body.questions) :
              Handled(QuizSubmission(u, prefix, has_allq, body), res)

HandleCallback ==
    \E u \in Users, data \in CallbackData, wf \in BOOLEAN :
        Handled(CallbackQuery(u, data, wf), NoPolls)

\* a message lacking the fields handle_message reads, or a JSON body that
\* holds neither a message nor a callback_query
HandleMalformed ==
    \E u \in Users, kind \in {"message", "other", "nondict"} :
        Handled([NoUpdate EXCEPT !.kind = kind, !.user = u, !.wf = FALSE], NoPolls)

\* a request without a body or with a body that is no JSON
HandleBadRequest ==
    \E kind \in BadBodyKinds :
        Handled([NoUpdate EXCEPT !.kind = kind, !.wf = FALSE], NoPolls)

\* the clock advances by one session lifetime
Tick ==
    /\ nticks < MaxTicks
    /\ now' = now + user_ttl
    /\ nticks' = nticks + 1
    /\ last' = NoUpdate
    /\ out' = <<>>
    /\ response' = 0
    /\ stats_delta' = NoStats
    /\ UNCHANGED <<memory_store, pressed, threadVars, storeVars, auxVars>>

\* one pass of _cleanup_worker
CleanupExpired ==
    /\ memory_store' = cleanup_expired(memory_store, now, user_ttl)
    /\ last' = NoUpdate
    /\ out' = <<>>
    /\ response' = 0
    /\ stats_delta' = NoStats
    /\ UNCHANGED <<now, nticks, pressed, threadVars, storeVars, auxVars>>

EmptyStore == [k \in {} |-> UserSession(StartTime)]

InitWith(b) ==
    /\ memory_store = EmptyStore
    /\ now = StartTime
    /\ nticks = 0
    /\ last = NoUpdate
    /\ out = <<>>
    /\ pc = [t \in Threads |-> "ready"]
    /\ tupd = [t \in Threads |-> NoUpdate]
    /\ tsess = [t \in Threads |-> UserSession(StartTime)]
    /\ base = EmptyStore
    /\ tlog = [t \in Threads |-> <<>>]
    /\ pressed = [u \in Users |-> NoButton]
    /\ response = 0
    /\ stats_delta = NoStats
    /\ backend = b
    /\ redis_store = EmptyStore
    /\ ret = NoCall
    /\ tg = NoSend
    /\ shutdown_event = FALSE
    /\ wpc = [w \in Workers |-> "loop"]
    /\ lock = "free"
    /\ late = [w \in Workers |-> FALSE]
    /\ ka = KeepAliveInit
    /\ mon = MonitorInit

\* the deployment without REDIS_URL: the file backend
Init == InitWith("file")

Next ==
    \/ HandleCommand
    \/ HandleQuizSubmission
    \/ HandleCallback
    \/ HandleMalformed
    \/ HandleBadRequest
    \/ Tick
    \/ CleanupExpired

Spec == Init /\ [][Next]_vars

\* ------------------------------------------- requests with press history
\* /start, a submission of one question and the callbacks, with a record
\* of the data of each user's most recent callback that was handled
PressUpdates ==
    UNION { { TextMessage(u, "/start", FALSE),
              QuizSubmission(u, "{", TRUE,
                  [parse |-> "object", all_q |-> "list", questions |-> OneQuestion]) }
            \cup { CallbackQuery(u, data, wf) : data \in CallbackData, wf \in BOOLEAN } :
            u \in Users }

P_Request ==
    \E upd \in PressUpdates :
    \E res \in PollResults(upd.questions) :
        /\ Request(upd, res)
        /\ pressed' = IF upd.kind = "callback_query" /\ upd.wf
                      THEN [pressed EXCEPT ![upd.user] = upd.data]
                      ELSE pressed

NextP ==
    \/ P_Request
    \/ Tick
    \/ CleanupExpired

SpecP == Init /\ [][NextP]_vars

\* ------------------------------------------------ one submission per press
\* a press of one of the two buttons by a user without a stored session
Q_Press ==
    \E u \in Users, data \in {"anon_true", "anon_false"} :
        /\ memory_store = EmptyStore
        /\ Handled(CallbackQuery(u, data, TRUE), NoPolls)

\* the quiz submission that follows the press
Q_Submit ==
    /\ last.kind = "callback_query"
    /\ \E questions \in BatchInputs :
       \E res \in BatchResults(questions) :
          Handled(QuizSubmission(last.user, "{", TRUE,
                     [parse |-> "object", all_q |-> "list", questions |-> questions]),
                  res)

NextQ ==
    \/ Q_Press
    \/ Q_Submit

SpecQ == Init /\ [][NextQ]_vars

\* ------------------------------------------------- DataStore operations
D_Set ==
    \E key \in Users, value \in StoreValues,
       fails \in (IF backend = "memory" THEN {FALSE} ELSE BOOLEAN) :
        LET r == DataStore_set_backend(backend, memory_store, redis_store,
                                       key, value, fails)
        IN  /\ memory_store' = r.memory
            /\ redis_store' = r.redis
            /\ ret' = [op |-> "set", key |-> key, value |-> value, found |-> TRUE,
                       failed |-> fails, raised |-> r.raised,
                       count |-> 0]
            /\ UNCHANGED <<now, nticks, last, out, pressed, response, stats_delta,
                           backend, threadVars, auxVars>>

D_Get ==
    \E key \in Users, fails \in (IF backend = "redis" THEN BOOLEAN ELSE {FALSE}) :
        LET r == DataStore_get_backend(backend, memory_store, redis_store, key, fails)
        IN  /\ ret' = [op |-> "get", key |-> key, value |-> r.value, found |-> r.found,
                       failed |-> fails, raised |-> r.raised,
                       count |-> 0]
            /\ UNCHANGED <<memory_store, redis_store, now, nticks, last, out, pressed,
                           response, stats_delta, backend, threadVars, auxVars>>

D_Delete ==
    \E key \in Users, fails \in (IF backend = "memory" THEN {FALSE} ELSE BOOLEAN) :
        LET r == DataStore_delete_backend(backend, memory_store, redis_store, key, fails)
        IN  /\ memory_store' = r.memory
            /\ redis_store' = r.redis
            /\ ret' = [op |-> "delete", key |-> key, value |-> UserSession(StartTime),
                       found |-> FALSE, failed |-> fails, raised |-> r.raised,
                       count |-> 0]
            /\ UNCHANGED <<now, nticks, last, out, pressed, response, stats_delta,
                           backend, threadVars, auxVars>>

\* a GET of /health: the payload is built from memory_store and the
\* counters, nothing is written
D_Health ==
    /\ ret' = [NoCall EXCEPT !.op = "health",
                             !.count = get_health_status(memory_store).active_users]
    /\ UNCHANGED <<memory_store, redis_store, now, nticks, last, out, pressed,
                   response, stats_delta, backend, threadVars, auxVars>>

InitD == \E b \in Backends : InitWith(b)

NextD ==
    \/ D_Set
    \/ D_Get
    \/ D_Delete
    \/ D_Health

SpecD == InitD /\ [][NextD]_vars

\* ------------------------------------------------- outbound operations
\* one call of an operation of the bot on some text, with some outcome of
\* the HTTP request; each behaviour applies one operation to one input
H_Record(r) ==
    /\ tg = NoSend
    /\ tg' = r
    /\ UNCHANGED <<memory_store, now, nticks, last, out, pressed, response,
                   stats_delta, threadVars, storeVars, workerVars, extVars>>

H_SendMessage ==
    \E input \in TextInputs(max_message_length), outcomes \in AttemptOutcomes :
        H_Record(send_message_request(input, outcomes))

H_SendPoll ==
    \E input \in PollInputs, outcomes \in AttemptOutcomes :
        H_Record(send_poll_request(input, outcomes))

H_AnswerCallbackQuery ==
    \E input \in TextInputs(max_callback_text_length), outcomes \in AttemptOutcomes :
        H_Record(answer_callback_query_request(input, outcomes))

H_EditMessageText ==
    \E input \in TextInputs(max_message_length), outcomes \in AttemptOutcomes :
        H_Record(edit_message_text_request(input, outcomes))

NextH ==
    \/ H_SendMessage
    \/ H_SendPoll
    \/ H_AnswerCallbackQuery
    \/ H_EditMessageText

SpecH == Init /\ [][NextH]_vars

\* --------------------------------------------- workers and the shutdown
\* _keep_alive_worker and _cleanup_worker, one step per statement that
\* reads the flag, sleeps or takes the store lock:
\*   loop    at the while condition
\*   sleep   inside time.sleep
\*   woke    time.sleep has returned, the flag is about to be tested
\*   work    the flag was found clear; about to ping or to sweep
\*   locked  cleanup_expired holds DataStore._lock
\*   done    the loop was left
W_Step(w, to) ==
    /\ wpc' = [wpc EXCEPT ![w] = to]
    /\ UNCHANGED <<memory_store, now, nticks, last, out, pressed, response,
                   stats_delta, threadVars, storeVars, shutdown_event, extVars>>

W_Loop(w) ==
    /\ wpc[w] = "loop"
    /\ W_Step(w, loop_condition(shutdown_event))
    /\ UNCHANGED <<tg, lock, late>>

W_Wake(w) ==
    /\ wpc[w] = "sleep"
    /\ W_Step(w, "woke")
    /\ late' = [late EXCEPT ![w] = shutdown_event]
    /\ UNCHANGED <<tg, lock>>

W_Check(w) ==
    /\ wpc[w] = "woke"
    /\ W_Step(w, after_sleep(shutdown_event))
    /\ UNCHANGED <<tg, lock, late>>

\* the keep-alive worker finds the bot idle for more than 600 s and pings
\* /health (idle, with some outcome of the GET), or does nothing; the ping
\* touches neither the store nor the sessions
W_Ping ==
    /\ wpc["keep_alive"] = "work"
    /\ W_Step("keep_alive", "loop")
    /\ \E idle \in BOOLEAN, outcome \in {"ok", "timeout"} :
          tg' = IF idle THEN keep_alive_ping(outcome) ELSE tg
    /\ UNCHANGED <<lock, late>>

\* cleanup_expired enters "with self._lock"
W_Acquire ==
    /\ wpc["cleanup"] = "work"
    /\ lock = "free"
    /\ W_Step("cleanup", "locked")
    /\ lock' = "cleanup"
    /\ UNCHANGED <<tg, late>>

\* cleanup_expired removes the expired entries and leaves the with block
W_Sweep ==
    /\ wpc["cleanup"] = "locked"
    /\ memory_store' = cleanup_expired(memory_store, now, user_ttl)
    /\ wpc' = [wpc EXCEPT !["cleanup"] = "loop"]
    /\ lock' = "free"
    /\ last' = NoUpdate
    /\ out' = <<>>
    /\ response' = 0
    /\ stats_delta' = NoStats
    /\ UNCHANGED <<now, nticks, pressed, threadVars, storeVars, tg, shutdown_event, late,
                   extVars>>

\* QuizBot.shutdown sets the event
W_Shutdown ==
    /\ ~shutdown_event
    /\ shutdown_event' = TRUE
    /\ UNCHANGED <<memory_store, now, nticks, last, out, pressed, response,
                   stats_delta, threadVars, storeVars, tg, wpc, lock, late, extVars>>

\* a request that stores a session; it needs the store lock
W_Request ==
    /\ lock = "free"
    /\ \E u \in Users : Handled(CallbackQuery(u, "anon_true", TRUE), NoPolls)

W_Worker(w) ==
    \/ W_Loop(w)
    \/ W_Wake(w)
    \/ W_Check(w)
    \/ (w = "keep_alive" /\ W_Ping)
    \/ (w = "cleanup" /\ (W_Acquire \/ W_Sweep))

NextW ==
    \/ \E w \in Workers : W_Loop(w)
    \/ \E w \in Workers : W_Wake(w)
    \/ \E w \in Workers : W_Check(w)
    \/ W_Ping
    \/ W_Acquire
    \/ W_Sweep
    \/ W_Shutdown
    \/ W_Request
    \/ Tick

\* each worker is a thread of its own that the scheduler keeps running, and
\* time.sleep returns
SpecW == Init /\ [][NextW]_vars /\ \A w \in Workers : WF_vars(W_Worker(w))

\* ----------------------------------------------------------- many users
\* Users that write for the first time, one after the other: the next one
\* is the first user id without a stored session, up to one user more than
\* max_users.
U_NewUser ==
    \E u \in {Cardinality(DOMAIN memory_store) + 1} :
        /\ u <= max_users + 1
        /\ Handled(TextMessage(u, "/start", FALSE), NoPolls)

NextU ==
    \/ U_NewUser

SpecU == Init /\ [][NextU]_vars

\* ------------------------------------------ the external keep-alive loop
\* one iteration of the for loop of ping_all_bots: total_pings is
\* incremented, the bot is pinged and the result handled
K_Ping ==
    /\ ka.pc = "ping"
    /\ \E outcome \in PingOutcomes :
          \E s \in {[ka EXCEPT !.total_pings = @ + 1, !.outcome = outcome]} :
            \E r \in {IF ping_bot(outcome) THEN keepalive_handle_success(s)
                                           ELSE keepalive_handle_failure(s)} :
              ka' = IF ka.bot = NumBots
                    THEN [r EXCEPT !.pc = "end_cycle"]
                    ELSE [r EXCEPT !.bot = @ + 1]
    /\ UNCHANGED <<memory_store, now, nticks, last, out, pressed, response,
                   stats_delta, threadVars, storeVars, tg, workerVars, mon>>

\* run_forever after ping_all_bots has returned: the emergency shutdown
\* (alert, then break) or the sleep and the next cycle
K_EndCycle ==
    /\ ka.pc = "end_cycle"
    /\ IF emergency_shutdown(ka)
       THEN ka' = [ka EXCEPT !.pc = "stopped", !.reason = "emergency",
                             !.emergency_alert = TRUE]
       ELSE /\ ka.ping_cycle < MaxCycles
            /\ ka' = [ka EXCEPT !.pc = "ping", !.bot = 1, !.ping_cycle = @ + 1]
    /\ UNCHANGED <<memory_store, now, nticks, last, out, pressed, response,
                   stats_delta, threadVars, storeVars, tg, workerVars, mon>>

\* KeyboardInterrupt: the loop is left without an alert
K_Interrupt ==
    /\ ka.pc # "stopped"
    /\ ka' = [ka EXCEPT !.pc = "stopped", !.reason = "interrupt"]
    /\ UNCHANGED <<memory_store, now, nticks, last, out, pressed, response,
                   stats_delta, threadVars, storeVars, tg, workerVars, mon>>

NextK ==
    \/ K_Ping
    \/ K_EndCycle
    \/ K_Interrupt

SpecK == Init /\ [][NextK]_vars

\* ------------------------------------------------------ the monitor loop
\* one iteration of the for loop of monitor_loop
M_Check ==
    /\ mon.pc = "check"
    /\ \E o \in CheckOutcomes :
          \E r \in {check_one_bot(mon, mon.bot, o)} :
            \E failed \in {~(o.raised = "none" /\ o.code = 200 /\ o.json)} :
              mon' = [r EXCEPT
                        !.pc = IF mon.bot = NumBots THEN "end_cycle" ELSE "check",
                        !.bot = IF mon.bot = NumBots THEN @ ELSE @ + 1,
                        !.latest[mon.bot] = IF failed THEN "failure" ELSE "success",
                        !.down = bot_down(o),
                        !.checks_done = @ + 1,
                        !.failures_done = IF failed THEN @ + 1 ELSE @,
                        !.failed_since_success = IF failed THEN @ + 1 ELSE 0]
    /\ UNCHANGED <<memory_store, now, nticks, last, out, pressed, response,
                   stats_delta, threadVars, storeVars, tg, workerVars, ka>>

\* monitor_loop after the for loop: total_checks grows by the number of
\* bots, then the sleep and the next cycle
M_EndCycle ==
    /\ mon.pc = "end_cycle"
    /\ mon.check_cycle < MaxCycles
    /\ mon' = [mon EXCEPT !.pc = "check", !.bot = 1, !.check_cycle = @ + 1,
                          !.total_checks = @ + NumBots,
                          !.time = @ + check_interval]
    /\ UNCHANGED <<memory_store, now, nticks, last, out, pressed, response,
                   stats_delta, threadVars, storeVars, tg, workerVars, ka>>

NextM ==
    \/ M_Check
    \/ M_EndCycle

SpecM == Init /\ [][NextM]_vars

\* ------------------------------------------------- concurrent handlers
\* Two request threads.  DataStore.get and DataStore.set each take the store
\* lock for one call only, so a handler is a sequence of atomic steps:
\*   get   data_store.get inside get_user_session
\*   set   data_store.set inside get_user_session, then the handler's work
\*         on its local session object
\*   save  the data_store.set of handle_callback_query
\*   tail  the calls that handle_callback_query issues after it
\* The other calls to the Telegram API are attached to the step they follow.

TouchesSession(upd) ==
    \/ upd.kind = "message" /\ upd.wf /\ Branch(upd) \in {"start", "json"}
    \/ upd.kind = "callback_query" /\ upd.wf

ConcurrentUpdates ==
    UNION { { TextMessage(u, "/start", FALSE),
              TextMessage(u, "/help", FALSE),
              QuizSubmission(u, "{", TRUE,
                  [parse |-> "object", all_q |-> "list", questions |-> OneQuestion]),
              CallbackQuery(u, "anon_true", TRUE),
              CallbackQuery(u, "anon_false", TRUE) } : u \in Users }

\* what a thread records of the calls it issues and of its store accesses
LogCalls(calls) ==
    [i \in 1..Len(calls) |->
        [ev |-> calls[i].method, what |-> calls[i].text, anon |-> calls[i].anon]]

LogStore(ev, session) ==
    [ev |-> ev, what |-> session.state, anon |-> session.anonymous]

\* handle_callback_query with the data_store.set of line 584 moved behind
\* the calls of lines 589-639
callback_next_save_last(p) ==
    CASE p = "ready" -> "get"
      [] p = "get" -> "set"
      [] p = "set" -> "tail"
      [] p = "tail" -> "save"
      [] p = "save" -> "done"

\* the order of the statements of handle_callback_query: the step that
\* follows step p (ready: the field reads and answer_callback_query of lines
\* 571-576; get and set: get_user_session, line 578; save: the data_store.set
\* of line 584; tail: the calls of lines 589-639)
callback_next(p) ==
    CASE p = "ready" -> "get"
      [] p = "get" -> "set"
      [] p = "set" -> "save"
      [] p = "save" -> "tail"
      [] p = "tail" -> "done"

T_Begin(t) ==
    /\ pc[t] = "ready"
    /\ \E upd \in ConcurrentUpdates :
          LET calls == IF ~TouchesSession(upd)
                       THEN process_update(memory_store, now, upd, NoPolls).out
                       ELSE IF upd.kind = "callback_query"
                       THEN <<answer_callback_query(upd.user)>>
                       ELSE <<>>
          IN  /\ tupd' = [tupd EXCEPT ![t] = upd]
              /\ last' = upd
              /\ out' = calls
              /\ tlog' = [tlog EXCEPT ![t] = LogCalls(calls)]
              /\ pc' = [pc EXCEPT ![t] =
                          IF ~TouchesSession(upd) THEN "done"
                          ELSE IF upd.kind = "callback_query"
                          THEN callback_next("ready")
                          ELSE "get"]
    /\ UNCHANGED <<memory_store, now, nticks, tsess, base, pressed, response,
                   stats_delta, storeVars, auxVars>>

T_Get(t) ==
    /\ pc[t] = "get"
    /\ LET session == load_session(memory_store, tupd[t].user, now)
       IN  /\ tsess' = [tsess EXCEPT ![t] = session]
           /\ tlog' = [tlog EXCEPT ![t] = Append(@, LogStore("get", session))]
    /\ pc' = [pc EXCEPT ![t] = "set"]
    /\ last' = tupd[t]
    /\ out' = <<>>
    /\ UNCHANGED <<memory_store, now, nticks, tupd, base, pressed, response,
                   stats_delta, storeVars, auxVars>>

T_Set(t) ==
    /\ pc[t] = "set"
    /\ LET upd     == tupd[t]
           session == touch_session(tsess[t], now)
           touched == Append(tlog[t], LogStore("touch", session))
       IN  /\ memory_store' = DataStore_set(memory_store, upd.user, session)
           /\ last' = upd
           /\ IF upd.kind = "callback_query"
              THEN /\ tsess' = [tsess EXCEPT ![t] = callback_session(session, upd.data)]
                   /\ out' = <<>>
                   /\ tlog' = [tlog EXCEPT ![t] = touched]
                   /\ pc' = [pc EXCEPT ![t] = callback_next("set")]
              ELSE IF Branch(upd) = "start"
              THEN /\ tsess' = [tsess EXCEPT ![t] = start_body(session, upd.user).session]
                   /\ out' = start_body(session, upd.user).out
                   /\ tlog' = [tlog EXCEPT ![t] =
                                  touched \o LogCalls(start_body(session, upd.user).out)]
                   /\ pc' = [pc EXCEPT ![t] = "done"]
              ELSE \E res \in PollResults(upd.questions) :
                      LET body == json_quiz_body(session, upd.user, upd, res)
                      IN  /\ tsess' = [tsess EXCEPT ![t] = body.session]
                          /\ out' = body.out
                          /\ tlog' = [tlog EXCEPT ![t] = touched \o LogCalls(body.out)]
                          /\ pc' = [pc EXCEPT ![t] = "done"]
    /\ UNCHANGED <<now, nticks, tupd, base, pressed, response, stats_delta, storeVars, auxVars>>

\* the data_store.set of line 584
T_Save(t) ==
    /\ pc[t] = "save"
    /\ memory_store' = DataStore_set(memory_store, tupd[t].user, tsess[t])
    /\ out' = <<>>
    /\ tlog' = [tlog EXCEPT ![t] = Append(@, LogStore("save", tsess[t]))]
    /\ last' = tupd[t]
    /\ pc' = [pc EXCEPT ![t] = callback_next("save")]
    /\ UNCHANGED <<now, nticks, tupd, tsess, base, pressed, response, stats_delta,
                   storeVars, auxVars>>

\* edit_message_text and the three send_message calls of lines 589-639
T_Tail(t) ==
    /\ pc[t] = "tail"
    /\ out' = callback_tail(tupd[t].user, tsess[t].anonymous)
    /\ tlog' = [tlog EXCEPT ![t] =
                   @ \o LogCalls(callback_tail(tupd[t].user, tsess[t].anonymous))]
    /\ last' = tupd[t]
    /\ pc' = [pc EXCEPT ![t] = callback_next("tail")]
    /\ UNCHANGED <<memory_store, now, nticks, tupd, tsess, base, pressed, response,
                   stats_delta, storeVars, auxVars>>

\* both handlers have returned: the threads take the next two updates
NextRound ==
    /\ \A t \in Threads : pc[t] = "done"
    /\ pc' = [t \in Threads |-> "ready"]
    /\ tupd' = [t \in Threads |-> NoUpdate]
    /\ tsess' = [t \in Threads |-> UserSession(StartTime)]
    /\ tlog' = [t \in Threads |-> <<>>]
    /\ base' = memory_store
    /\ last' = NoUpdate
    /\ out' = <<>>
    /\ UNCHANGED <<memory_store, now, nticks, pressed, response, stats_delta, storeVars, auxVars>>

NextC ==
    \/ \E t \in Threads : T_Begin(t)
    \/ \E t \in Threads : T_Get(t)
    \/ \E t \in Threads : T_Set(t)
    \/ \E t \in Threads : T_Save(t)
    \/ \E t \in Threads : T_Tail(t)
    \/ NextRound

SpecC == Init /\ [][NextC]_vars

\* ------------------------------------------------------------ observers
\* what a read of user u's session returns from store m (the fields other
\* than last_activity)
StoredState(m, u) == load_session(m, u, 0).state
StoredAnonymous(m, u) == load_session(m, u, 0).anonymous
StoredQuizCount(m, u) == load_session(m, u, 0).quiz_count

\* the step just taken handled an update (to be used inside [][...]_vars)
IsStart(upd) == upd.kind = "message" /\ upd.wf /\ Branch(upd) = "start"
IsQuizSubmission(upd) == upd.kind = "message" /\ upd.wf /\ Branch(upd) = "json"
IsCallback(upd) == upd.kind = "callback_query"
HasQuestions(upd) == upd.parse = "object" /\ upd.all_q = "list"

NumPolls(calls) ==
    Cardinality({i \in 1..Len(calls) : calls[i].method = "sendPoll"})

\* the step handles a quiz submission that is processed: the sender's
\* stored state is waiting_json and the text is an object with questions
ProcessedStep ==
    /\ IsQuizSubmission(last')
    /\ HasQuestions(last')
    /\ StoredState(memory_store, last'.user) = "waiting_json"

\* the state right after a processed quiz submission
AfterProcessed ==
    /\ IsQuizSubmission(last)
    /\ HasQuestions(last)
    /\ \E i \in 1..Len(out) : out[i].text = "summary"

DocumentedEdges ==
    {<<"idle", "choosing_type">>, <<"choosing_type", "waiting_json">>,
     <<"waiting_json", "choosing_type">>}

\* C1: every handled update changes each user's stored state along a
\* documented edge (idle -> choosing_type -> waiting_json -> choosing_type)
\* or not at all.
C1_OnlyDocumentedEdges ==
    [][last'.kind # "none" =>
        \A u \in Users :
            \/ StoredState(memory_store', u) = StoredState(memory_store, u)
            \/ <<StoredState(memory_store, u), StoredState(memory_store', u)>>
                  \in DocumentedEdges]_vars

\* C2: after a /start message has been handled, the sender's stored session
\* has state choosing_type.
C2_StartStoresChoosingType ==
    [][IsStart(last') => StoredState(memory_store', last'.user) = "choosing_type"]_vars

\* C3: after a processed quiz submission the sender's stored state is
\* choosing_type, and a quiz submission of the same user handled right
\* after a processed one issues no sendPoll.
C3_ProcessedRevertsToChoosingType ==
    [][/\ ProcessedStep => StoredState(memory_store', last'.user) = "choosing_type"
       /\ (AfterProcessed /\ IsQuizSubmission(last') /\ last'.user = last.user)
             => NumPolls(out') = 0]_vars

\* C4: a processed quiz submission increases the sender's stored quiz_count
\* by exactly one, whatever the results of its polls.
C4_ProcessedCountsOne ==
    [][ProcessedStep =>
          StoredQuizCount(memory_store', last'.user)
             = StoredQuizCount(memory_store, last'.user) + 1]_vars

\* C5: a quiz submission from a user whose stored state is not waiting_json
\* issues no sendPoll, sends the prompt to use /start and leaves the stored
\* state, anonymous flag and quiz_count of that user unchanged.
C5_SubmissionOutsideWaitingJson ==
    [][(IsQuizSubmission(last') /\ StoredState(memory_store, last'.user) # "waiting_json")
         => /\ NumPolls(out') = 0
            /\ out' = <<send_message(last'.user, "use_start")>>
            /\ StoredState(memory_store', last'.user) = StoredState(memory_store, last'.user)
            /\ StoredAnonymous(memory_store', last'.user)
                  = StoredAnonymous(memory_store, last'.user)
            /\ StoredQuizCount(memory_store', last'.user)
                  = StoredQuizCount(memory_store, last'.user)]_vars

\* a submission with a question that would be sent as a poll was refused
\* for a user who is not in waiting_json
C5_Witness ==
    /\ IsQuizSubmission(last)
    /\ HasQuestions(last)
    /\ \E i \in 1..Len(last.questions) : sends_poll(last.questions[i])
    /\ StoredState(memory_store, last.user) = "idle"
    /\ out = <<send_message(last.user, "use_start")>>

\* C6: after a callback with data anon_true (anon_false) that carries the
\* fields the handler reads, the sender's stored session has anonymous TRUE
\* (FALSE) and state waiting_json, and the next read returns exactly that.
C6_CallbackPersistsChoice ==
    [][(IsCallback(last') /\ last'.wf /\ last'.data \in {"anon_true", "anon_false"})
         => /\ DataStore_has(memory_store', last'.user)
            /\ memory_store'[last'.user].anonymous = (last'.data = "anon_true")
            /\ memory_store'[last'.user].state = "waiting_json"
            /\ LET read == get_user_session(memory_store', last'.user, now').session
               IN  /\ read.anonymous = (last'.data = "anon_true")
                   /\ read.state = "waiting_json"]_vars

\* a callback anon_false has been handled for a user whose session is
\* stored as non-anonymous and waiting_json
C6_Witness ==
    /\ IsCallback(last) /\ last.wf /\ last.data = "anon_false"
    /\ DataStore_has(memory_store, last.user)
    /\ memory_store[last.user].anonymous = FALSE
    /\ memory_store[last.user].state = "waiting_json"

\* C7: a handled update changes a user's stored anonymous flag only if it
\* moves that user's stored state from choosing_type to waiting_json.
C7_AnonymousOnlyOnChoosingToWaiting ==
    [][last'.kind # "none" =>
        \A u \in Users :
            StoredAnonymous(memory_store', u) # StoredAnonymous(memory_store, u)
               => /\ StoredState(memory_store, u) = "choosing_type"
                  /\ StoredState(memory_store', u) = "waiting_json"]_vars

\* C8 as stated: a quiz submission whose text is no JSON sends the Invalid
\* JSON message, issues no sendPoll and leaves stored state and quiz_count
\* unchanged.
C8_MalformedAlwaysInvalidJson ==
    [][(IsQuizSubmission(last') /\ last'.parse = "malformed")
         => /\ out' = <<send_message(last'.user, "invalid_json")>>
            /\ NumPolls(out') = 0
            /\ StoredState(memory_store', last'.user) = StoredState(memory_store, last'.user)
            /\ StoredQuizCount(memory_store', last'.user)
                  = StoredQuizCount(memory_store, last'.user)]_vars

\* C8 amended: a quiz submission whose text is no JSON, from a user whose
\* stored state is waiting_json, sends the Invalid JSON message; from a user
\* in any other state it sends the prompt to use /start; in both cases no
\* sendPoll is issued and stored state and quiz_count are unchanged.
C8_MalformedInWaitingJson ==
    [][(IsQuizSubmission(last') /\ last'.parse = "malformed")
         => /\ out' = <<send_message(last'.user,
                          IF StoredState(memory_store, last'.user) = "waiting_json"
                          THEN "invalid_json" ELSE "use_start")>>
            /\ NumPolls(out') = 0
            /\ StoredState(memory_store', last'.user) = StoredState(memory_store, last'.user)
            /\ StoredQuizCount(memory_store', last'.user)
                  = StoredQuizCount(memory_store, last'.user)]_vars

\* a text that is no JSON was answered with the Invalid JSON message for a
\* user in waiting_json
C8_Witness ==
    /\ IsQuizSubmission(last) /\ last.parse = "malformed"
    /\ StoredState(memory_store, last.user) = "waiting_json"
    /\ out = <<send_message(last.user, "invalid_json")>>

\* C10: every callback_query update handled issues an answerCallbackQuery.
C10_CallbackAlwaysAnswered ==
    [][IsCallback(last') =>
          \E i \in 1..Len(out') : out'[i].method = "answerCallbackQuery"]_vars

\* the store after handling update a and then update b, one after the other
SerialStore(m, a, b) ==
    LET first == process_update(m, now, a, [i \in 1..Len(a.questions) |-> TRUE]).store
    IN  process_update(first, now, b, [i \in 1..Len(b.questions) |-> TRUE]).store

SameSessions(m1, m2) ==
    \A u \in Users :
        /\ StoredState(m1, u) = StoredState(m2, u)
        /\ StoredAnonymous(m1, u) = StoredAnonymous(m2, u)
        /\ StoredQuizCount(m1, u) = StoredQuizCount(m2, u)

\* C9: when two updates have been handled concurrently by the two request
\* threads, the stored sessions are those of handling the two updates in
\* one of the two serial orders.
C9_ConcurrentHandlersSerializable ==
    (\A t \in Threads : pc[t] = "done")
       => \/ SameSessions(memory_store, SerialStore(base, tupd[1], tupd[2]))
          \/ SameSessions(memory_store, SerialStore(base, tupd[2], tupd[1]))

\* ----------------------------------------------- observers of a submission
Buttons == {"anon_true", "anon_false"}

\* a sendPoll for entry i of the question array is among the calls
PollFor(calls, i) ==
    \E j \in 1..Len(calls) : calls[j].method = "sendPoll" /\ calls[j].n = i

\* the number of sendPoll calls that succeeded
OkPolls(calls) ==
    Cardinality({j \in 1..Len(calls) : calls[j].method = "sendPoll" /\ calls[j].ok})

\* the count reported by the summary message
SummaryCount(calls) ==
    LET j == CHOOSE k \in 1..Len(calls) : calls[k].text = "summary"
    IN  calls[j].n

\* every entry of the question array is an object with an option list
HasOptionLists(upd) ==
    \A i \in 1..Len(upd.questions) :
        upd.questions[i].isdict /\ upd.questions[i].has_o

\* the entries of the question array that are within the limit of 25
Considered(upd) == 1..Min(Len(upd.questions), max_questions_per_quiz)

\* C11: in the handling of one callback, answerCallbackQuery comes before
\* the write of the session with state waiting_json and the chosen flag,
\* that write comes before editMessageText, and editMessageText before the
\* sendMessage calls; a finished handler has done exactly these steps, so
\* the session is written before the first sendMessage.
C11_CallbackStepsInOrder ==
    \A t \in Threads :
        (tupd[t].kind = "callback_query" /\ tupd[t].wf) =>
            LET L == tlog[t]
                chosen == (tupd[t].data = "anon_true")
                Before(j, ev) == \E i \in 1..(j - 1) : L[i].ev = ev
                Saved(j) == \E i \in 1..(j - 1) :
                               /\ L[i].ev = "save"
                               /\ L[i].what = "waiting_json"
                               /\ L[i].anon = chosen
            IN  /\ \A j \in 1..Len(L) :
                      /\ L[j].ev = "save" => Before(j, "answerCallbackQuery")
                      /\ L[j].ev = "editMessageText" => Saved(j)
                      /\ L[j].ev = "sendMessage"
                            => Saved(j) /\ Before(j, "editMessageText")
                /\ pc[t] = "done" =>
                      /\ [j \in 1..Len(L) |-> L[j].ev]
                            = <<"answerCallbackQuery", "get", "touch", "save",
                                "editMessageText", "sendMessage", "sendMessage",
                                "sendMessage">>
                      /\ L[7].what = "template"
                      /\ L[8].what = "instructions"

\* a thread has finished the handling of a callback
C11_Witness ==
    \E t \in Threads :
        /\ tupd[t].kind = "callback_query" /\ tupd[t].wf
        /\ pc[t] = "done"
        /\ Len(tlog[t]) = 8
        /\ tlog[t][4].ev = "save"

\* C12: every sendPoll for a user is issued after a button press of that
\* user and carries is_anonymous as chosen by the user's most recent press
\* of one of the two buttons; handling /start leaves the stored anonymous
\* flag unchanged.
C12_PollsCarryLastChoice ==
    [][/\ \A i \in 1..Len(out') :
             out'[i].method = "sendPoll" =>
                /\ pressed'[out'[i].chat] # NoButton
                /\ pressed'[out'[i].chat] \in Buttons
                      => out'[i].anon = (pressed'[out'[i].chat] = "anon_true")
       /\ IsStart(last') =>
             StoredAnonymous(memory_store', last'.user)
                = StoredAnonymous(memory_store, last'.user)]_vars

\* a non-anonymous poll was sent to a user whose last press was anon_false
C12_Witness ==
    /\ IsQuizSubmission(last)
    /\ pressed[last.user] = "anon_false"
    /\ \E i \in 1..Len(out) : out[i].method = "sendPoll" /\ out[i].anon = FALSE

\* C13: in a processed submission whose entries all have an option list, an
\* entry with fewer than 2 options gets no sendPoll, the number of sendPoll
\* calls is the number of entries (within the limit of 25) with at least 2
\* options, and the summary counts no more than those.
C13_ShortOptionListsSkipped ==
    [][(ProcessedStep /\ HasOptionLists(last')) =>
          LET valid == {i \in Considered(last') : last'.questions[i].nopts >= 2}
          IN  /\ \A i \in 1..Len(last'.questions) :
                    last'.questions[i].nopts < 2 => ~PollFor(out', i)
              /\ NumPolls(out') = Cardinality(valid)
              /\ SummaryCount(out') <= Cardinality(valid)]_vars

\* three questions with options and one with a single option gave three
\* polls and a summary of three
C13_Witness ==
    /\ AfterProcessed
    /\ Len(last.questions) = 4
    /\ HasOptionLists(last)
    /\ Cardinality({i \in 1..4 : last.questions[i].nopts >= 2}) = 3
    /\ \E i \in 1..4 : last.questions[i].nopts = 1
    /\ NumPolls(out) = 3
    /\ SummaryCount(out) = 3

\* C14: in a processed submission, an entry that is an object without an
\* option list gets no sendPoll.
C14_NoOptionListSkipped ==
    [][ProcessedStep =>
          \A i \in 1..Len(last'.questions) :
              (last'.questions[i].isdict /\ ~last'.questions[i].has_o)
                 => ~PollFor(out', i)]_vars

\* C15: in a processed submission, every entry (within the limit) with at
\* least 2 options gets a sendPoll whose correct_option_id is the entry's
\* index when that is an integer from 0 to the number of options sent minus
\* one, and 0 otherwise.
C15_CorrectIndexCoerced ==
    [][ProcessedStep =>
          \A i \in Considered(last') :
              LET q == last'.questions[i]
                  expected == IF /\ q.c.type = "int"
                                 /\ q.c.val >= 0
                                 /\ q.c.val < Min(q.nopts, max_poll_options)
                              THEN q.c
                              ELSE IntIndex(0)
              IN  (q.isdict /\ q.has_o /\ q.nopts >= 2) =>
                     \E j \in 1..Len(out') :
                         /\ out'[j].method = "sendPoll"
                         /\ out'[j].n = i
                         /\ out'[j].correct = expected]_vars

\* C16: a processed submission issues at most 25 sendPoll calls, all for
\* entries among the first 25, in array order, and is answered with the
\* processing message and the summary whatever the length of the array.
C16_AtMostTwentyFivePolls ==
    [][ProcessedStep =>
          /\ NumPolls(out') <= max_questions_per_quiz
          /\ \A j \in 1..Len(out') :
                out'[j].method = "sendPoll" => out'[j].n \in 1..max_questions_per_quiz
          /\ \A j, k \in 1..Len(out') :
                (j < k /\ out'[j].method = "sendPoll" /\ out'[k].method = "sendPoll")
                   => out'[j].n < out'[k].n
          /\ out'[1].text = "processing"
          /\ \E j \in 1..Len(out') : out'[j].text = "summary"]_vars

\* an array of more than 25 questions with options gave 25 polls
C16_Witness ==
    /\ AfterProcessed
    /\ Len(last.questions) > max_questions_per_quiz
    /\ \A i \in 1..Len(last.questions) : last.questions[i].nopts >= 2
    /\ NumPolls(out) = max_questions_per_quiz

\* C17: in a processed submission every entry (within the limit) with at
\* least 2 options gets its sendPoll whatever happened to the entries
\* before it, and the count in the summary and the amount added to
\* stats.successful_polls both equal the number of sendPoll calls that
\* succeeded.
C17_FailuresDoNotStopBatch ==
    [][ProcessedStep =>
          /\ \A i \in Considered(last') :
                LET q == last'.questions[i]
                IN  (q.isdict /\ q.has_o /\ q.nopts >= 2) => PollFor(out', i)
          /\ SummaryCount(out') = OkPolls(out')
          /\ stats_delta'.successful_polls = OkPolls(out')]_vars

\* a poll failed, an entry that is no object was met, and a later poll
\* succeeded and was the only one counted
C17_Witness ==
    /\ AfterProcessed
    /\ Len(last.questions) = 3
    /\ ~last.questions[2].isdict
    /\ \E j \in 1..Len(out) : out[j].method = "sendPoll" /\ out[j].n = 1 /\ ~out[j].ok
    /\ \E j \in 1..Len(out) : out[j].method = "sendPoll" /\ out[j].n = 3 /\ out[j].ok
    /\ SummaryCount(out) = 1
    /\ stats_delta.successful_polls = 1

\* C18: every request whose body is JSON is answered with status 200
\* ({"ok": true}), which the webhook returns only when process_update has
\* returned without raising.
C18_JsonBodyAlwaysAcknowledged ==
    last.kind \in JsonKinds => response = 200

\* a JSON body that is no object was acknowledged
C18_Witness ==
    /\ last.kind = "nondict"
    /\ response = 200

\* C19: when a /start or a quiz submission is handled for a user whose
\* stored session has a last_activity more than user_ttl in the past, the
\* handler gets a fresh default session: no poll is sent and what is stored
\* afterwards is not the old session in waiting_json, has anonymous TRUE and
\* quiz_count 0.
C19_ExpiredSessionReadsFresh ==
    [][(/\ IsStart(last') \/ IsQuizSubmission(last')
        /\ DataStore_has(memory_store, last'.user)
        /\ now - memory_store[last'.user].last_activity > user_ttl)
         => /\ NumPolls(out') = 0
            /\ StoredState(memory_store', last'.user) # "waiting_json"
            /\ StoredAnonymous(memory_store', last'.user) = TRUE
            /\ StoredQuizCount(memory_store', last'.user) = 0]_vars

\* C20: a DataStore.set does not raise, and when its call to the backend
\* failed the value is in the in-process map under the key afterwards.
C20_SetNeverRaises ==
    [][ret'.op = "set" =>
          /\ ~ret'.raised
          /\ ret'.failed =>
                /\ DataStore_has(memory_store', ret'.key)
                /\ memory_store'[ret'.key] = ret'.value]_vars

\* a set with a redis_client failed and left the value in the map
C20_Witness ==
    /\ backend = "redis"
    /\ ret.op = "set" /\ ret.failed /\ ~ret.raised
    /\ ~DataStore_has(redis_store, ret.key)
    /\ DataStore_has(memory_store, ret.key)
    /\ memory_store[ret.key] = ret.value

\* C21: a session read back right after it was written, with no operation
\* in between, is found and has the state and the anonymous flag that were
\* written.
C21_WriteThenReadRoundTrip ==
    [][(ret.op = "set" /\ ret'.op = "get" /\ ret'.key = ret.key)
         => /\ ret'.found
            /\ ret'.value.state = ret.value.state
            /\ ret'.value.anonymous = ret.value.anonymous]_vars

\* the handler read the session of its sender (and did not write it again)
ReadsSession(upd) == IsStart(upd) \/ IsQuizSubmission(upd)

\* C22: the first session read for a user without a stored session returns
\* a default session (idle, quiz_count 0) and leaves it stored under the
\* user's key; a read for a user with a stored session returns its state,
\* anonymous and quiz_count and changes only last_activity; the sessions of
\* the other users are left alone.
C22_SessionReadDefaultsAndTouches ==
    [][ReadsSession(last') =>
          LET u   == last'.user
              got == get_user_session(memory_store, u, now).session
          IN  /\ DataStore_has(memory_store', u)
              /\ \A v \in (DOMAIN memory_store) \ {u} :
                    /\ DataStore_has(memory_store', v)
                    /\ memory_store'[v] = memory_store[v]
              /\ DOMAIN memory_store' = DOMAIN memory_store \cup {u}
              /\ IF DataStore_has(memory_store, u)
                 THEN /\ got.state = memory_store[u].state
                      /\ got.anonymous = memory_store[u].anonymous
                      /\ got.quiz_count = memory_store[u].quiz_count
                      /\ memory_store'[u] =
                            [memory_store[u] EXCEPT !.last_activity = now]
                 ELSE /\ got.state = "idle"
                      /\ got.quiz_count = 0
                      /\ memory_store'[u].state = "idle"
                      /\ memory_store'[u].quiz_count = 0]_vars

\* a /start was handled for a user whose session, stored earlier in
\* waiting_json with the public flag, is still that but for last_activity
C22_Witness ==
    /\ IsStart(last)
    /\ now > StartTime
    /\ DataStore_has(memory_store, last.user)
    /\ memory_store[last.user].state = "waiting_json"
    /\ memory_store[last.user].anonymous = FALSE
    /\ memory_store[last.user].last_activity = now

\* the text is a /help, /status or /template command or matches no command
\* and no quiz-submission pattern
IsPlainText(upd) ==
    /\ upd.kind = "message"
    /\ upd.wf
    /\ \/ upd.prefix \in {"/help", "/status", "/template"}
       \/ upd.prefix = "none" /\ ~upd.has_allq

\* C23: handling a /help, /status or /template message or a text that
\* matches nothing leaves every stored session as it was and sends no poll.
C23_PlainTextLeavesSessions ==
    [][IsPlainText(last') =>
          /\ DOMAIN memory_store' = DOMAIN memory_store
          /\ SameSessions(memory_store', memory_store)
          /\ NumPolls(out') = 0]_vars

\* a /help was handled while a session in waiting_json is stored
C23_Witness ==
    /\ IsPlainText(last)
    /\ last.prefix = "/help"
    /\ out = <<send_message(last.user, "help")>>
    /\ DataStore_has(memory_store, last.user)
    /\ memory_store[last.user].state = "waiting_json"

\* the first messages a quiz-submission handler can send
SubmissionReplies == {"use_start", "invalid_json", "error", "no_questions", "processing"}

\* C24: a message is handled by exactly one branch, the first that matches
\* in the order /start, /help, /status, /template, quiz submission ("{" or
\* "all_q"), generic nudge: the calls issued are those of that branch alone.
C24_FirstMatchingBranchOnly ==
    (last.kind = "message" /\ last.wf) =>
        IF last.prefix = "/start"
        THEN out = <<send_message(last.user, "welcome")>>
        ELSE IF last.prefix = "/help"
        THEN out = <<send_message(last.user, "help")>>
        ELSE IF last.prefix = "/status"
        THEN out = <<send_message(last.user, "status")>>
        ELSE IF last.prefix = "/template"
        THEN out = <<send_message(last.user, "template_header"),
                     send_message(last.user, "template"),
                     send_message(last.user, "template_hint")>>
        ELSE IF last.prefix = "{" \/ last.has_allq
        THEN /\ Len(out) >= 1
             /\ out[1].text \in SubmissionReplies
             /\ \A i \in 1..Len(out) :
                   out[i].text \notin {"welcome", "help", "status", "template_hint", "nudge"}
        ELSE out = <<send_message(last.user, "nudge")>>

\* a /start text that also contains "all_q" got the welcome and nothing else
C24_Witness ==
    /\ last.kind = "message" /\ last.wf
    /\ last.prefix = "/start"
    /\ last.has_allq
    /\ out = <<send_message(last.user, "welcome")>>

\* C25: none of the four outbound operations raises to its caller; when
\* the HTTP call times out, cannot connect or is answered with a 4xx or 5xx
\* status the operation returns its failure value (False, or None for
\* answer_callback_query).
C25_OutboundOperationsNeverRaise ==
    tg.op \in {"sendMessage", "sendPoll", "editMessageText", "answerCallbackQuery"} =>
        /\ ~tg.raised
        /\ tg.result \in {"True", "False", "None"}
        /\ tg.outcome \in HttpFailures =>
              tg.result = IF tg.op = "answerCallbackQuery" THEN "None" ELSE "False"

\* a send_poll whose request timed out returned False
C25_Witness ==
    /\ tg.op = "sendPoll"
    /\ tg.sent
    /\ tg.outcome = "timeout"
    /\ tg.result = "False"
    /\ ~tg.raised

\* C26: every payload is within the limits: the text of sendMessage and of
\* editMessageText has at most 4096 characters, the question of a sendPoll
\* at most 300, each option at most 100 and the explanation at most 200.
C26_PayloadLengthLimits ==
    tg.sent =>
        /\ tg.op \in {"sendMessage", "editMessageText"} => tg.text <= 4096
        /\ tg.op = "sendPoll" =>
              /\ tg.question <= 300
              /\ tg.option <= 100
              /\ tg.explanation <= 200

\* a poll whose question, options and explanation were all too long was
\* sent cut to the limits
C26_Witness ==
    /\ tg.op = "sendPoll"
    /\ tg.sent
    /\ tg.input.question > 300 /\ tg.question = 300
    /\ tg.input.option > 100 /\ tg.option = 100
    /\ tg.input.explanation > 200 /\ tg.explanation = 200

AllWorkersDone == \A w \in Workers : wpc[w] = "done"

\* C27: once shutdown has set the flag both workers terminate; a worker
\* whose sleep ended after the flag was set does no further ping or sweep
\* (it is at the test that follows the sleep or has left its loop); and no
\* worker holds the store lock while it sleeps.
C27_WorkersStopAfterShutdown ==
    /\ shutdown_event ~> AllWorkersDone
    /\ [](\A w \in Workers : late[w] => wpc[w] \in {"woke", "done"})
    /\ [](\A w \in Workers : wpc[w] = "sleep" => lock # w)

\* both workers woke up after the flag was set and have terminated, the
\* cleanup worker after a sweep that removed a session
C27_Witness ==
    /\ shutdown_event
    /\ AllWorkersDone
    /\ \A w \in Workers : late[w]
    /\ memory_store = EmptyStore
    /\ now > StartTime
    /\ lock = "free"

\* C28: a callback whose data is neither anon_true nor anon_false leaves
\* the stored state and anonymous flag of its user unchanged.
C28_OnlyButtonsChangeSession ==
    [][(IsCallback(last') /\ last'.data \notin Buttons) =>
          /\ StoredState(memory_store', last'.user) =
                StoredState(memory_store, last'.user)
          /\ StoredAnonymous(memory_store', last'.user) =
                StoredAnonymous(memory_store, last'.user)]_vars

\* C29: every sendPoll payload has between 2 and 10 options and a
\* correct_option_id that is an integer index of one of them; for an entry
\* with more than 10 options the payload has 10.
C29_PollOptionsAndIndexInRange ==
    \A j \in 1..Len(out) :
        out[j].method = "sendPoll" =>
            /\ out[j].nopts \in 2..10
            /\ out[j].correct.type = "int"
            /\ out[j].correct.val \in 0..(out[j].nopts - 1)
            /\ (last.questions[out[j].n].has_o /\ last.questions[out[j].n].nopts > 10)
                  => out[j].nopts = 10

\* C30: a get right after a set of the same key whose call to the durable
\* backend failed returns the value just written.
C30_ReadAfterFailedWrite ==
    [][(ret.op = "set" /\ ret.failed /\ ret'.op = "get" /\ ret'.key = ret.key)
         => /\ ret'.found
            /\ ret'.value = ret.value]_vars

\* the step is one pass of the sweep: no update is handled and the clock
\* stands still
IsSweep == last' = NoUpdate /\ now' = now

\* C31: one pass of the sweep removes every session whose last_activity is
\* more than user_ttl in the past and no other, leaving the rest as they
\* are; a step that handles a message or a callback removes no session, and
\* neither does the passing of time.
C31_OnlySweepRemovesExpired ==
    [][/\ IsSweep =>
            /\ DOMAIN memory_store' =
                  {k \in DOMAIN memory_store :
                      ~(now - memory_store[k].last_activity > user_ttl)}
            /\ \A k \in DOMAIN memory_store' : memory_store'[k] = memory_store[k]
       /\ ~IsSweep => DOMAIN memory_store \subseteq DOMAIN memory_store']_vars

\* a user pressed a button, so that a session was stored, and after the
\* sweep that followed two session lifetimes later nothing is stored
C31_Witness ==
    /\ \E u \in Users : pressed[u] # NoButton
    /\ memory_store = EmptyStore
    /\ last = NoUpdate
    /\ now >= StartTime + 2 * user_ttl

\* C32: the number of stored sessions never exceeds max_users.
C32_StoreBoundedByMaxUsers ==
    Cardinality(DOMAIN memory_store) <= max_users

\* the keys under which a session is stored, in Redis or in the map
StoredKeys ==
    IF backend = "redis" THEN DOMAIN redis_store \cup DOMAIN memory_store
    ELSE DOMAIN memory_store

\* C33: the active_users figure of the health payload is the number of
\* sessions stored, whichever backend holds them, and building the payload
\* changes no session.
C33_ActiveUsersCountsStoredSessions ==
    [][ret'.op = "health" =>
          /\ ret'.count = Cardinality(StoredKeys)
          /\ memory_store' = memory_store
          /\ redis_store' = redis_store
          /\ stats_delta' = stats_delta]_vars

\* the operations that go through _make_telegram_request
TelegramOps == {"sendMessage", "sendPoll", "answerCallbackQuery", "editMessageText"}

\* the attempts of the recorded request that were answered with HTTP 429
AnsweredWith429 == {k \in 1..tg.attempts : tg.outcomes[k] = "status_429"}

\* C34: rate_limit_hits counts the Telegram API calls answered with HTTP 429:
\* such a call is reported to the caller as a failure and adds one to
\* rate_limit_hits.
C34_RateLimitHitsCount429 ==
    (tg.op \in TelegramOps /\ tg.sent) =>
        /\ tg.rate_limit_hits = Cardinality(AnsweredWith429)
        /\ AnsweredWith429 # {} => tg.result \in {"False", "None"}

\* the number of attempts a request is to make: one more after every
\* connection error, up to stop_after_attempt
RECURSIVE AttemptsDue(_, _)
AttemptsDue(outcomes, k) ==
    IF outcomes[k] = "connection_error" /\ k < stop_after_attempt
    THEN AttemptsDue(outcomes, k + 1)
    ELSE k

\* C35: a Telegram API call that fails with a connection error is attempted
\* again, up to 3 attempts in total, api_calls counting every attempt; a call
\* that succeeds at the first attempt is made once.
C35_ConnectionErrorIsRetried ==
    (tg.op \in TelegramOps /\ tg.sent /\ tg.outcome \in {"connection_error", "ok"}) =>
        /\ tg.attempts = AttemptsDue(tg.outcomes, 1)
        /\ tg.api_calls = tg.attempts

\* a step that pinged a bot
K_Pinged == ka'.total_pings # ka.total_pings

\* C36: in a run of failed pings with no success in between, the failure that
\* brings consecutive_failures to alert_threshold sends a down alert.
C36_ThirdFailureAlerts ==
    (ka.result = "failure" /\ ka.consecutive_failures = alert_threshold) =>
        ka.alerts # {}

\* C37: run_forever leaves its loop by the emergency shutdown, after the
\* emergency alert, exactly at the end of a ping cycle that leaves
\* consecutive_failures >= max_consecutive_failures; a successful ping sets
\* consecutive_failures to 0 and clears current_downtime_start; after every
\* ping current_downtime_start is set exactly when consecutive_failures > 0.
C37_EmergencyShutdownAtTen ==
    [][/\ (ka.pc = "end_cycle" /\ ka' # ka /\ ka'.reason # "interrupt") =>
            ((ka'.pc = "stopped" /\ ka'.reason = "emergency" /\ ka'.emergency_alert)
                <=> ka.consecutive_failures >= max_consecutive_failures)
       /\ (ka'.reason = "emergency" /\ ka.reason # "emergency") =>
            (ka.pc = "end_cycle" /\ ka.consecutive_failures >= max_consecutive_failures)
       /\ (K_Pinged /\ ka'.result = "success") =>
            (ka'.consecutive_failures = 0 /\ ka'.current_downtime_start = 0)
       /\ K_Pinged =>
            (ka'.current_downtime_start # 0 <=> ka'.consecutive_failures > 0)]_vars

C37_Witness ==
    /\ ka.reason = "emergency"
    /\ ka.recovery_attempts > 0
    /\ ka.consecutive_failures = max_consecutive_failures

\* a monitoring cycle has just been completed
CycleCompleted == mon.pc = "check" /\ mon.bot = 1 /\ mon.check_cycle > 1

\* C38: after every monitoring cycle total_checks = successful_checks +
\* failed_checks, every health check counted once, and consecutive_failures
\* is the number of failed checks since the last successful one.
C38_MonitorCountersAddUp ==
    CycleCompleted =>
        /\ mon.total_checks = mon.successful_checks + mon.failed_checks
        /\ mon.total_checks = mon.checks_done
        /\ mon.failed_checks = mon.failures_done
        /\ mon.consecutive_failures = mon.failed_since_success

\* C39: a bot has at most one unresolved downtime event, and none once its
\* latest health check has succeeded.
C39_RecoveredBotHasNoOpenDowntime ==
    \A b \in Bots :
        /\ mon.unresolved[b] <= 1
        /\ mon.latest[b] = "success" => mon.unresolved[b] = 0

\* C40: when the latest check found the bot down (timeout, connection error
\* or a status other than 200), a Bot Down alert was issued for it, unless
\* the cooldown of that alert was running.
C40_BotDownAlertWhenDown ==
    mon.down =>
        \/ "Bot Down" \in mon.alerts
        \/ /\ mon.last_alerts["Bot Down"] # 0
           /\ mon.time - mon.last_alerts["Bot Down"] < alert_cooldown
====
